---- MODULE Spec2Model ----
(***************************************************************************)
(* Model of the dependency graph builder (lib/import_analysis.py) and of   *)
(* the priority scorer (lib/gap_features.py) of repo-xray.                 *)
(*                                                                         *)
(* Python strings are TLA+ strings (Len, SubSeq and \o act on them        *)
(* character by character), Python lists are sequences, a Python dict is  *)
(* a sequence of entries in insertion order.  None and the empty string   *)
(* are both "" where the code only tests truthiness.                      *)
(***************************************************************************)
EXTENDS Integers, Sequences, FiniteSets, TLC

(***************************************************************************)
(* String helpers: str.startswith, str.endswith, str.split, str.join,     *)
(* str.replace on one character, and the < of str (code point order).     *)
(***************************************************************************)
StartsWith(s, p) == Len(p) <= Len(s) /\ SubSeq(s, 1, Len(p)) = p

EndsWith(s, p) == Len(p) <= Len(s) /\ SubSeq(s, Len(s) - Len(p) + 1, Len(s)) = p

CharAt(s, i) == SubSeq(s, i, i)

RECURSIVE SplitRec(_, _, _, _)
SplitRec(s, sep, i, start) ==
    IF i > Len(s) THEN <<SubSeq(s, start, Len(s))>>
    ELSE IF CharAt(s, i) = sep
         THEN <<SubSeq(s, start, i - 1)>> \o SplitRec(s, sep, i + 1, i + 1)
         ELSE SplitRec(s, sep, i + 1, start)

Split(s, sep) == SplitRec(s, sep, 1, 1)

RECURSIVE Join(_, _)
Join(parts, sep) ==
    IF Len(parts) = 0 THEN ""
    ELSE IF Len(parts) = 1 THEN parts[1]
    ELSE parts[1] \o sep \o Join(Tail(parts), sep)

Replace(s, old, new) == Join(Split(s, old), new)

\* The characters the model's names are written in, in code point order.
CodePoints == "./0123456789ABCDEFGHIJKLMNOPQRSTUVWXYZ_abcdefghijklmnopqrstuvwxyz"

Ord(c) == CHOOSE i \in 1..Len(CodePoints) : CharAt(CodePoints, i) = c

RECURSIVE StrLessFrom(_, _, _)
StrLessFrom(a, b, i) ==
    IF i > Len(b) THEN FALSE
    ELSE IF i > Len(a) THEN TRUE
    ELSE IF CharAt(a, i) = CharAt(b, i) THEN StrLessFrom(a, b, i + 1)
    ELSE Ord(CharAt(a, i)) < Ord(CharAt(b, i))

StrLess(a, b) == StrLessFrom(a, b, 1)

StrMin(a, b) == IF StrLess(b, a) THEN b ELSE a

StrMax(a, b) == IF StrLess(a, b) THEN b ELSE a

Range(seq) == {seq[i] : i \in 1..Len(seq)}

(***************************************************************************)
(* Path helpers: os.path.relpath, os.path.dirname on absolute, normalised *)
(* POSIX paths.                                                           *)
(***************************************************************************)
NonEmpty(x) == x # ""

PathParts(p) == SelectSeq(Split(p, "/"), NonEmpty)

RECURSIVE CommonPrefixLen(_, _)
CommonPrefixLen(xs, ys) ==
    IF Len(xs) = 0 \/ Len(ys) = 0 \/ xs[1] # ys[1] THEN 0
    ELSE 1 + CommonPrefixLen(Tail(xs), Tail(ys))

RelPath(path, start) ==
    LET start_list == PathParts(start)
        path_list  == PathParts(path)
        i          == CommonPrefixLen(start_list, path_list)
        rel_list   == [k \in 1..(Len(start_list) - i) |-> ".."]
                        \o SubSeq(path_list, i + 1, Len(path_list))
    IN IF Len(rel_list) = 0 THEN "." ELSE Join(rel_list, "/")

RECURSIVE LastIndexOf(_, _, _)
LastIndexOf(s, c, i) ==
    IF i = 0 THEN 0
    ELSE IF CharAt(s, i) = c THEN i
    ELSE LastIndexOf(s, c, i - 1)

\* os.path.dirname of a normalised path: the head before the last "/".
Dirname(p) ==
    LET i == LastIndexOf(p, "/", Len(p))
    IN IF i = 0 THEN "" ELSE IF i = 1 THEN "/" ELSE SubSeq(p, 1, i - 1)

Basename(p) == SubSeq(p, LastIndexOf(p, "/", Len(p)) + 1, Len(p))

(***************************************************************************)
(* Module path utilities.                                                  *)
(***************************************************************************)
module_path_to_name(filepath, root_dir) ==
    LET rel_path == RelPath(filepath, root_dir)
        module   == Replace(rel_path, "/", ".")
        no_py    == IF EndsWith(module, ".py")
                    THEN SubSeq(module, 1, Len(module) - 3) ELSE module
    IN IF EndsWith(no_py, ".__init__")
       THEN SubSeq(no_py, 1, Len(no_py) - 9) ELSE no_py

RECURSIVE StripLeadingDots(_)
StripLeadingDots(s) ==
    IF StartsWith(s, ".") THEN StripLeadingDots(SubSeq(s, 2, Len(s))) ELSE s

RECURSIVE CountLeadingDots(_)
CountLeadingDots(s) ==
    IF StartsWith(s, ".") THEN 1 + CountLeadingDots(SubSeq(s, 2, Len(s))) ELSE 0

resolve_relative_import(importing_module, relative_import) ==
    LET level == CountLeadingDots(relative_import)
        name  == StripLeadingDots(relative_import)
        parts == Split(importing_module, ".")
        base  == IF level > 0
                 THEN Join(SubSeq(parts, 1, Len(parts) - level), ".")
                 ELSE importing_module
    IN IF level > Len(parts) THEN name
       ELSE IF name # "" THEN (IF base # "" THEN base \o "." \o name ELSE name)
       ELSE base

(***************************************************************************)
(* Configuration tables of import_analysis.py.                            *)
(***************************************************************************)
EXTERNAL_PACKAGES ==
    {"os", "sys", "re", "json", "typing", "pathlib", "collections",
     "datetime", "asyncio", "logging", "argparse", "dataclasses",
     "abc", "enum", "functools", "itertools", "copy", "time",
     "math", "random", "hashlib", "base64", "io", "contextlib",
     "subprocess", "shutil", "tempfile", "glob", "fnmatch",
     "unittest", "traceback", "warnings", "inspect", "ast",
     "concurrent", "multiprocessing", "threading", "queue",
     "pytest", "numpy", "pandas", "requests", "pydantic", "fastapi",
     "flask", "django", "sqlalchemy", "redis", "boto3", "aiohttp",
     "click", "typer", "rich", "httpx", "uvicorn", "yaml", "toml"}

(***************************************************************************)
(* The inputs: a project directory, the files found in it, and what each  *)
(* file declares.  A file's text is modelled by what the import extractor *)
(* reads from it: whether it parses, its absolute import names in order   *)
(* and its relative import strings in order.                              *)
(***************************************************************************)
RootDir == "/r"

FileUniverse ==
    {"/r/a/__init__.py", "/r/a.py", "/r/a/b/c.py", "/r/a/utils.py",
     "/r/c/utils.py", "/r/c/d.py", "/r/b.py"}

RootPackages == {"", "a"}

Text(ok, abs, rel) == [parses |-> ok, imports |-> abs, relative_imports |-> rel]

\* The alternative texts of each file of the universe.
Menu(f) ==
    CASE f = "/r/a/__init__.py" ->
           << Text(TRUE, <<"a.b">>, <<>>),
              Text(TRUE, <<"c.d", "os">>, <<".utils">>) >>
      [] f = "/r/a.py" ->
           << Text(TRUE, <<"b">>, <<".b">>),
              Text(TRUE, <<"a.b.c", "a.b.c">>, <<>>) >>
      [] f = "/r/a/b/c.py" ->
           << Text(TRUE, <<"utils">>, <<"..utils">>),
              Text(TRUE, <<"a.b.c.x", "attrs", "requests.api">>, <<"..b.c", ".missing">>) >>
      [] f = "/r/a/utils.py" ->
           << Text(TRUE, <<"c.utils">>, <<>>),
              Text(TRUE, <<"c.utils", "c.utils.f", "a.utils">>, <<".utils", "...x">>) >>
      [] f = "/r/c/utils.py" ->
           << Text(TRUE, <<"a.utils">>, <<>>),
              Text(TRUE, <<"c.d", "zlib.x">>, <<".d">>) >>
      [] f = "/r/c/d.py" ->
           << Text(TRUE, <<"utils">>, <<".utils">>),
              Text(TRUE, <<"a.b", "a.utils", "attrs">>, <<>>) >>
      [] f = "/r/b.py" ->
           << Text(TRUE, <<"utils", "b.x", "os.path">>, <<".nothing">>),
              Text(FALSE, <<"a", "attrs">>, <<".a">>) >>

MenuIndex == UNION {DOMAIN Menu(f) : f \in FileUniverse}

\* The positions of a reference in a text of the universe.
MenuRefIndex ==
    UNION {DOMAIN Menu(f)[n].imports \cup DOMAIN Menu(f)[n].relative_imports :
              <<f, n>> \in FileUniverse \X MenuIndex}

\* The file lists: distinct files of the universe, in any order.
MaxFiles == 3

FileLists ==
    {fs \in UNION {[1..n -> FileUniverse] : n \in 1..MaxFiles} :
        \A i, j \in DOMAIN fs : i # j => fs[i] # fs[j]}

VARIABLES
    files,           \* build_import_graph's files argument
    root_package,    \* its root_package argument ("" for None)
    disk,            \* file -> its text, for the files read so far
    modules,         \* the registry: entries in dict insertion order
    internal_edges,  \* list of (importer, target)
    external_deps,   \* set of (importer, top-level name)
    circular,        \* list of (min, max) pairs
    pc,              \* "discover", "analyze", "circular", "done"
    fi,              \* index of the next file of the first pass
    mi,              \* index of the next module of the second pass
    results,         \* calculate_priority_scores' results argument
    files_data,      \* its files_data dict: entries in insertion order
    path_map,        \* its path_map dict: normalized path -> full path
    priority_files,  \* its priority_files list
    top_20,          \* the list it returns
    spc,             \* its position: "hotspots", ..., "returned"
    all_distances,   \* calculate_dependency_distance: (from, to) -> hops, path
    distances,       \* what calculate_dependency_distance returns
    layers,          \* what identify_layers returns
    orphans,         \* what find_orphans returns
    apc,             \* analyze_imports' position: "build", ..., "analyzed"
    directory,       \* auto_detect_root_package's directory: what is on disk
    potential_packages, \* its set of candidate packages
    walk,            \* the files os.walk has still to yield, in its order
    import_counts,   \* its Counter: entries in insertion order
    detected,        \* what it returns ("" for None)
    dpc              \* its position: "list", "walk", "returned"

graph_vars == <<files, root_package, disk, modules, internal_edges,
                external_deps, circular, pc, fi, mi>>

priority_vars == <<results, files_data, path_map, priority_files, top_20, spc>>

analysis_vars == <<all_distances, distances, layers, orphans, apc>>

detect_vars == <<directory, potential_packages, walk, import_counts,
                 detected, dpc>>

vars == <<graph_vars, priority_vars, analysis_vars, detect_vars>>

\* auto_detect_root_package is not running.
DetectIdle ==
    /\ directory = <<>>
    /\ potential_packages = {}
    /\ walk = <<>>
    /\ import_counts = <<>>
    /\ detected = ""
    /\ dpc = "idle"

\* analyze_imports is not running.
AnalysisIdle ==
    /\ all_distances = <<>>
    /\ distances = <<>>
    /\ layers = <<>>
    /\ orphans = <<>>
    /\ apc = "idle"

\* calculate_priority_scores is not running.
PriorityIdle ==
    /\ results = <<>>
    /\ files_data = <<>>
    /\ path_map = <<>>
    /\ priority_files = <<>>
    /\ top_20 = <<>>
    /\ spc = "idle"

\* build_import_graph is not running.
GraphIdle ==
    /\ files = <<>>
    /\ root_package = ""
    /\ disk = <<>>
    /\ modules = <<>>
    /\ internal_edges = <<>>
    /\ external_deps = {}
    /\ circular = <<>>
    /\ pc = "idle"
    /\ fi = 1
    /\ mi = 1

(***************************************************************************)
(* Import extraction.                                                      *)
(***************************************************************************)
EmptyImportData == [imports |-> <<>>, relative_imports |-> <<>>]

\* Variant of parse_imports_with_aliases: a file that fails to parse still
\* yields the references written in it.
parse_imports_with_aliases_KeepsPartial(text) ==
    [imports |-> text.imports, relative_imports |-> text.relative_imports]

parse_imports_with_aliases(text) ==
    IF ~text.parses THEN EmptyImportData
    ELSE [imports |-> text.imports, relative_imports |-> text.relative_imports]

(***************************************************************************)
(* The registry (first pass of build_import_graph).                        *)
(***************************************************************************)
Keys(mods) == [i \in 1..Len(mods) |-> mods[i].name]

HasKey(mods, name) == \E i \in 1..Len(mods) : mods[i].name = name

IndexOf(mods, name) == CHOOSE i \in 1..Len(mods) : mods[i].name = name

Get(mods, name) == mods[IndexOf(mods, name)]

SetMin(S) == CHOOSE x \in S : \A y \in S : x <= y

CanonicalName(filepath, root_dir, rootpkg) ==
    LET module_name == StripLeadingDots(module_path_to_name(filepath, root_dir))
    IN IF rootpkg # "" /\ ~StartsWith(module_name, rootpkg)
       THEN rootpkg \o "." \o module_name
       ELSE module_name

\* modules[module_name] = {...}: a new key goes last, an old key keeps its place.
RegisterModule(mods, filepath, root_dir, rootpkg) ==
    LET module_name == CanonicalName(filepath, root_dir, rootpkg)
        entry == [name |-> module_name, file |-> filepath,
                  imports |-> <<>>, imported_by |-> <<>>]
    IN IF HasKey(mods, module_name)
       THEN [mods EXCEPT ![IndexOf(mods, module_name)] = entry]
       ELSE Append(mods, entry)

LastSegment(name) == LET parts == Split(name, ".") IN parts[Len(parts)]

FirstSegment(name) == Split(name, ".")[1]

\* leaf_to_modules[leaf]: the ids whose last segment is leaf, in registry order.
leaf_to_modules(mods, leaf) ==
    LET HasLeaf(mod_name) == LastSegment(mod_name) = leaf
    IN SelectSeq(Keys(mods), HasLeaf)

(***************************************************************************)
(* Reference resolution (second pass of build_import_graph).               *)
(***************************************************************************)
\* Variant of PrefixMatch: every strict child of the reference is tried before
\* any strict parent.
PrefixMatch_ChildrenFirst(mods, imp) ==
    LET children == {i \in 1..Len(mods) : StartsWith(mods[i].name, imp \o ".")}
        parents  == {i \in 1..Len(mods) : StartsWith(imp, mods[i].name \o ".")}
    IN IF HasKey(mods, imp) THEN imp
       ELSE IF children # {} THEN mods[SetMin(children)].name
       ELSE IF parents # {} THEN mods[SetMin(parents)].name
       ELSE ""

\* Exact id, else the first registry entry that is a strict child or a strict
\* parent of the reference ("" when there is none).
PrefixMatch(mods, imp) ==
    LET hits == {i \in 1..Len(mods) :
                    \/ StartsWith(mods[i].name, imp \o ".")
                    \/ StartsWith(imp, mods[i].name \o ".")}
    IN IF HasKey(mods, imp) THEN imp
       ELSE IF hits # {} THEN mods[SetMin(hits)].name
       ELSE ""

\* Variant of LeafMatch: the importer's directory is ignored.
LeafMatch_FirstCandidate(mods, module_name, base) ==
    LET candidates == leaf_to_modules(mods, base)
    IN IF Len(candidates) = 0 THEN "" ELSE candidates[1]

\* The leaf-name lookup on the reference's first segment and its tie-break.
LeafMatch(mods, module_name, base) ==
    LET candidates == leaf_to_modules(mods, base)
        module_dir == Dirname(Get(mods, module_name).file)
        same_dir   == {i \in 1..Len(candidates) :
                          Dirname(Get(mods, candidates[i]).file) = module_dir}
    IN IF Len(candidates) = 0 THEN ""
       ELSE IF Len(candidates) = 1 THEN candidates[1]
       ELSE IF same_dir # {} THEN candidates[SetMin(same_dir)]
       ELSE candidates[1]

ResolveAbsolute(mods, module_name, imp) ==
    LET target == PrefixMatch(mods, imp)
    IN IF target # "" THEN target
       ELSE LeafMatch(mods, module_name, FirstSegment(imp))

\* Variant of RegisteredPrefix: one segment is dropped, no more.
RegisteredPrefix_OneStrip(mods, target) ==
    IF target = "" \/ HasKey(mods, target) THEN target
    ELSE LET parts == Split(target, ".")
             shorter == Join(SubSeq(parts, 1, Len(parts) - 1), ".")
         IN IF HasKey(mods, shorter) THEN shorter ELSE ""

\* while target and target not in modules: drop the last segment.
RECURSIVE RegisteredPrefix(_, _)
RegisteredPrefix(mods, target) ==
    IF target = "" \/ HasKey(mods, target) THEN target
    ELSE LET parts == Split(target, ".")
         IN RegisteredPrefix(mods, Join(SubSeq(parts, 1, Len(parts) - 1), "."))

ResolveRelative(mods, module_name, rel_imp) ==
    RegisteredPrefix(mods, resolve_relative_import(module_name, rel_imp))

(***************************************************************************)
(* Edge insertion.  g is the graph under construction: modules,            *)
(* internal_edges, external_deps.                                          *)
(***************************************************************************)
\* Variant of InsertEdge: no "target not in info['imports']" test.
InsertEdge_NoMembershipTest(g, module_name, target) ==
    LET fwd == [g.modules EXCEPT
                   ![IndexOf(g.modules, module_name)].imports = Append(@, target)]
        rev == [fwd EXCEPT
                   ![IndexOf(fwd, target)].imported_by = Append(@, module_name)]
    IN [g EXCEPT !.modules = rev,
                 !.internal_edges = Append(@, <<module_name, target>>)]

\* Variant of InsertEdge: the target's reverse list is not updated.
InsertEdge_NoReverse(g, module_name, target) ==
    IF target \in Range(Get(g.modules, module_name).imports) THEN g
    ELSE [g EXCEPT !.modules[IndexOf(g.modules, module_name)].imports =
                       Append(@, target),
                   !.internal_edges = Append(@, <<module_name, target>>)]

InsertEdge(g, module_name, target) ==
    IF target \in Range(Get(g.modules, module_name).imports) THEN g
    ELSE LET fwd == [g.modules EXCEPT
                        ![IndexOf(g.modules, module_name)].imports =
                            Append(@, target)]
             rev == [fwd EXCEPT
                        ![IndexOf(fwd, target)].imported_by =
                            Append(@, module_name)]
         IN [g EXCEPT !.modules = rev,
                      !.internal_edges = Append(@, <<module_name, target>>)]

\* Variant of ProcessAbsoluteImport: no "target != module_name" test.
ProcessAbsoluteImport_NoSelfTest(g, module_name, imp) ==
    LET base   == FirstSegment(imp)
        target == ResolveAbsolute(g.modules, module_name, imp)
    IN IF target # ""
       THEN InsertEdge(g, module_name, target)
       ELSE IF base \notin EXTERNAL_PACKAGES
       THEN [g EXCEPT !.external_deps = @ \cup {<<module_name, base>>}]
       ELSE g

ProcessAbsoluteImport(g, module_name, imp) ==
    LET base   == FirstSegment(imp)
        target == ResolveAbsolute(g.modules, module_name, imp)
    IN IF target # "" /\ target # module_name
       THEN InsertEdge(g, module_name, target)
       ELSE IF target = "" /\ base \notin EXTERNAL_PACKAGES
       THEN [g EXCEPT !.external_deps = @ \cup {<<module_name, base>>}]
       ELSE g

\* Variant of ProcessRelativeImport: an unresolved relative reference is
\* recorded as an external dependency.
ProcessRelativeImport_RecordsUnresolved(g, module_name, rel_imp) ==
    LET resolved == resolve_relative_import(module_name, rel_imp)
        target   == RegisteredPrefix(g.modules, resolved)
    IN IF target # "" /\ target # module_name
       THEN InsertEdge(g, module_name, target)
       ELSE IF target = "" /\ FirstSegment(resolved) \notin EXTERNAL_PACKAGES
       THEN [g EXCEPT !.external_deps = @ \cup {<<module_name, FirstSegment(resolved)>>}]
       ELSE g

ProcessRelativeImport(g, module_name, rel_imp) ==
    LET target == ResolveRelative(g.modules, module_name, rel_imp)
    IN IF target # "" /\ target # module_name
       THEN InsertEdge(g, module_name, target)
       ELSE g

RECURSIVE ProcessAbsoluteImports(_, _, _)
ProcessAbsoluteImports(g, module_name, imps) ==
    IF Len(imps) = 0 THEN g
    ELSE ProcessAbsoluteImports(ProcessAbsoluteImport(g, module_name, imps[1]),
                                module_name, Tail(imps))

RECURSIVE ProcessRelativeImports(_, _, _)
ProcessRelativeImports(g, module_name, rels) ==
    IF Len(rels) = 0 THEN g
    ELSE ProcessRelativeImports(ProcessRelativeImport(g, module_name, rels[1]),
                                module_name, Tail(rels))

\* One iteration of "for module_name, info in modules.items()".
AnalyzeOne(g, module_name, text) ==
    LET import_data == parse_imports_with_aliases(text)
    IN ProcessRelativeImports(
           ProcessAbsoluteImports(g, module_name, import_data.imports),
           module_name, import_data.relative_imports)

(***************************************************************************)
(* Cycle detection: one pass over internal_edges with a seen-pairs set.    *)
(***************************************************************************)
RECURSIVE CircularScan(_, _, _, _)
CircularScan(edges, i, seen_pairs, found) ==
    IF i > Len(edges) THEN found
    ELSE LET a == edges[i][1]
             b == edges[i][2]
         IN CircularScan(edges, i + 1, seen_pairs \cup {<<a, b>>},
                IF <<b, a>> \in seen_pairs
                THEN Append(found, <<StrMin(a, b), StrMax(a, b)>>)
                ELSE found)

\* Variant of FindCircular: the pair is recorded as (a, b), not (min, max).
RECURSIVE CircularScan_Unordered(_, _, _, _)
CircularScan_Unordered(edges, i, seen_pairs, found) ==
    IF i > Len(edges) THEN found
    ELSE LET a == edges[i][1]
             b == edges[i][2]
         IN CircularScan_Unordered(edges, i + 1, seen_pairs \cup {<<a, b>>},
                IF <<b, a>> \in seen_pairs
                THEN Append(found, <<a, b>>)
                ELSE found)

FindCircular_Unordered(edges) == CircularScan_Unordered(edges, 1, {}, <<>>)

\* The list before "circular = list(set(circular))".
FindCircular(edges) == CircularScan(edges, 1, {}, <<>>)

\* list(set(xs)): each element once, in an order the code does not fix.
ListOfSet(xs) ==
    {s \in [1..Cardinality(Range(xs)) -> Range(xs)] :
        \A i, j \in DOMAIN s : i # j => s[i] # s[j]}

(***************************************************************************)
(* build_import_graph as a state machine.                                  *)
(***************************************************************************)
Init ==
    /\ files \in FileLists
    /\ root_package \in RootPackages
    /\ disk = <<>>
    /\ modules = <<>>
    /\ internal_edges = <<>>
    /\ external_deps = {}
    /\ circular = <<>>
    /\ pc = "discover"
    /\ fi = 1
    /\ mi = 1
    /\ PriorityIdle
    /\ AnalysisIdle
    /\ DetectIdle

\* First pass, one file.
DiscoverModule ==
    /\ pc = "discover"
    /\ modules' = RegisterModule(modules, files[fi], RootDir, root_package)
    /\ fi' = fi + 1
    /\ pc' = IF fi = Len(files) THEN "analyze" ELSE "discover"
    /\ UNCHANGED <<files, root_package, disk, internal_edges, external_deps,
                   circular, mi>>
    /\ UNCHANGED priority_vars
    /\ UNCHANGED analysis_vars
    /\ UNCHANGED detect_vars

\* Second pass, one module: its file is read (one of the texts the file can
\* have) and its references are processed.
AnalyzeModule ==
    /\ pc = "analyze"
    /\ \E n \in DOMAIN Menu(modules[mi].file) :
          LET text == Menu(modules[mi].file)[n]
              g == AnalyzeOne([modules |-> modules,
                               internal_edges |-> internal_edges,
                               external_deps |-> external_deps],
                              modules[mi].name, text)
          IN /\ disk' = (modules[mi].file :> text) @@ disk
             /\ modules' = g.modules
             /\ internal_edges' = g.internal_edges
             /\ external_deps' = g.external_deps
    /\ mi' = mi + 1
    /\ pc' = IF mi = Len(modules) THEN "circular" ELSE "analyze"
    /\ UNCHANGED <<files, root_package, circular, fi>>
    /\ UNCHANGED priority_vars
    /\ UNCHANGED analysis_vars
    /\ UNCHANGED detect_vars

DetectCircular ==
    /\ pc = "circular"
    /\ circular' \in ListOfSet(FindCircular(internal_edges))
    /\ pc' = "done"
    /\ UNCHANGED <<files, root_package, disk, modules, internal_edges,
                   external_deps, fi, mi>>
    /\ UNCHANGED priority_vars
    /\ UNCHANGED analysis_vars
    /\ UNCHANGED detect_vars

Next == DiscoverModule \/ AnalyzeModule \/ DetectCircular

Spec == Init /\ [][Next]_vars

(***************************************************************************)
(* build_import_graph as a function of its inputs: the two passes and the  *)
(* cycle scan, composed as the state machine runs them.                    *)
(***************************************************************************)
RECURSIVE DiscoverAll(_, _, _)
DiscoverAll(mods, fs, rootpkg) ==
    IF Len(fs) = 0 THEN mods
    ELSE DiscoverAll(RegisterModule(mods, fs[1], RootDir, rootpkg), Tail(fs), rootpkg)

RECURSIVE AnalyzeAll(_, _, _)
AnalyzeAll(g, i, d) ==
    IF i > Len(g.modules) THEN g
    ELSE AnalyzeAll(AnalyzeOne(g, g.modules[i].name, d[g.modules[i].file]), i + 1, d)

build_import_graph(fs, rootpkg, d) ==
    AnalyzeAll([modules |-> DiscoverAll(<<>>, fs, rootpkg),
                internal_edges |-> <<>>,
                external_deps |-> {}], 1, d)

\* The keys of the dict build_import_graph returns.
ResultKeys == {"modules", "internal_edges", "external_deps", "circular", "aliases"}

\* The state machine computes build_import_graph.
StepsAgreeWithFunction ==
    pc \in {"circular", "done"} =>
        LET g == build_import_graph(files, root_package, disk)
        IN /\ modules = g.modules
           /\ internal_edges = g.internal_edges
           /\ external_deps = g.external_deps

(***************************************************************************)
(* Properties of the dependency graph.                                     *)
(***************************************************************************)
RegistryBuilt == pc \in {"analyze", "circular", "done"}

Ids == Range(Keys(modules))

Edges == Range(internal_edges)

\* What the extractor returns for the file of the i-th registry entry.
ImportData(i) == parse_imports_with_aliases(disk[modules[i].file])

NoDuplicates(seq) == \A i, j \in DOMAIN seq : i # j => seq[i] # seq[j]

Graph == [modules |-> modules, internal_edges |-> internal_edges,
          external_deps |-> external_deps]

\* A registered id strictly below the reference / strictly above it.
IsChildOf(id, imp) == StartsWith(id, imp \o ".")

IsParentOf(id, imp) == StartsWith(imp, id \o ".")

\* The registered ids whose last segment is the reference's first segment.
LeafCandidates(imp) == {id \in Ids : LastSegment(id) = FirstSegment(imp)}

FirstInRegistry(S) ==
    CHOOSE id \in S : \A other \in S : IndexOf(modules, id) <= IndexOf(modules, other)

\* C2: the registry is injective: distinct files never receive the same
\* canonical module id, so once the first pass is over the registry has as
\* many entries as there are input files.
C2_RegistryInjective ==
    RegistryBuilt =>
        /\ \A i, j \in DOMAIN files :
              i # j => CanonicalName(files[i], RootDir, root_package)
                         # CanonicalName(files[j], RootDir, root_package)
        /\ Len(modules) = Len(files)

\* C3: no module id is in its own imports list or its own imported_by list,
\* and internal_edges holds no pair (m, m).
C3_NoSelfEdges ==
    /\ \A i \in DOMAIN modules :
          /\ modules[i].name \notin Range(modules[i].imports)
          /\ modules[i].name \notin Range(modules[i].imported_by)
    /\ \A k \in DOMAIN internal_edges : internal_edges[k][1] # internal_edges[k][2]

\* A finished run in which a module's absolute reference and one of its
\* relative references both resolve to the module itself.
C3_SelfImportSeen ==
    /\ pc = "done"
    /\ \E i \in DOMAIN modules :
          LET m == modules[i].name
              data == ImportData(i)
          IN /\ \E k \in DOMAIN data.imports :
                    ResolveAbsolute(modules, m, data.imports[k]) = m
             /\ \E k \in DOMAIN data.relative_imports :
                    ResolveRelative(modules, m, data.relative_imports[k]) = m

\* text with its k-th absolute (relative) reference repeated after position at.
InsertAfter(seq, at, x) == SubSeq(seq, 1, at) \o <<x>> \o SubSeq(seq, at + 1, Len(seq))

RepeatAbsolute(text, k, at) ==
    [text EXCEPT !.imports = InsertAfter(text.imports, at, text.imports[k])]

RepeatRelative(text, k, at) ==
    [text EXCEPT !.relative_imports =
        InsertAfter(text.relative_imports, at, text.relative_imports[k])]

SameEdges(g, h) == g.modules = h.modules /\ g.internal_edges = h.internal_edges

\* C4: edge insertion is idempotent: no ordered pair is in internal_edges
\* twice, no imports or imported_by list holds an id twice, and analysing a
\* file in which one of its references occurs once more (anywhere after its
\* first occurrence) yields the same modules and the same internal_edges.
C4_EdgeInsertionIdempotent ==
    /\ NoDuplicates(internal_edges)
    /\ \A i \in DOMAIN modules :
          NoDuplicates(modules[i].imports) /\ NoDuplicates(modules[i].imported_by)
    /\ pc = "analyze" =>
          \A n \in DOMAIN Menu(modules[mi].file) :
              LET m == modules[mi].name
                  text == Menu(modules[mi].file)[n]
                  once == AnalyzeOne(Graph, m, text)
              IN /\ \A k \in DOMAIN text.imports : \A at \in k..Len(text.imports) :
                        SameEdges(AnalyzeOne(Graph, m, RepeatAbsolute(text, k, at)), once)
                 /\ \A k \in DOMAIN text.relative_imports :
                        \A at \in k..Len(text.relative_imports) :
                            SameEdges(AnalyzeOne(Graph, m, RepeatRelative(text, k, at)), once)

\* A finished run in which one file names the same reference twice, and two
\* different references of one file resolve to one target, the target being
\* another module.
C4_RepeatedReferenceSeen ==
    /\ pc = "done"
    /\ \E i \in DOMAIN modules :
          LET m == modules[i].name
              imps == ImportData(i).imports
              t(k) == ResolveAbsolute(modules, m, imps[k])
          IN \E k, l \in DOMAIN imps :
                k < l /\ imps[k] = imps[l] /\ t(k) \notin {"", m}
    /\ \E i \in DOMAIN modules :
          LET m == modules[i].name
              imps == ImportData(i).imports
              t(k) == ResolveAbsolute(modules, m, imps[k])
          IN \E k, l \in DOMAIN imps :
                imps[k] # imps[l] /\ t(k) = t(l) /\ t(k) \notin {"", m}

FileOrders(fs) == {p \in [DOMAIN fs -> Range(fs)] : Range(p) = Range(fs)}

\* C5: the graph does not depend on the order of the file list: every
\* permutation of the files yields the same set of edges (stated where every
\* file of the list was read, so that each order reads the same texts).
C5_FileOrderIndependent ==
    (pc = "done" /\ DOMAIN disk = Range(files)) =>
        \A p \in FileOrders(files) :
            Range(build_import_graph(p, root_package, disk).internal_edges) = Edges

\* C6: forward and reverse adjacency mirror each other and internal_edges,
\* and every edge joins two registry keys.
C6_AdjacencyMirrors ==
    /\ \A e \in Edges :
          /\ e[1] \in Ids /\ e[2] \in Ids
          /\ e[2] \in Range(Get(modules, e[1]).imports)
          /\ e[1] \in Range(Get(modules, e[2]).imported_by)
    /\ \A i \in DOMAIN modules :
          /\ \A b \in Range(modules[i].imports) : <<modules[i].name, b>> \in Edges
          /\ \A a \in Range(modules[i].imported_by) : <<a, modules[i].name>> \in Edges

\* A finished run with at least one edge and at least one reference that no
\* strategy resolves.
C6_EdgeAndUnresolvedSeen ==
    /\ pc = "done"
    /\ internal_edges # <<>>
    /\ \E i \in DOMAIN modules : \E k \in DOMAIN ImportData(i).imports :
          ResolveAbsolute(modules, modules[i].name, ImportData(i).imports[k]) = ""

\* C7: the circular list holds exactly the direct mutual pairs, each once and
\* written (smaller id, larger id); edges that close only a longer cycle add
\* nothing.
C7_CircularIsMutualPairs ==
    pc = "done" =>
        /\ NoDuplicates(circular)
        /\ \A pair \in Range(circular) :
              /\ StrLess(pair[1], pair[2])
              /\ <<pair[1], pair[2]>> \in Edges
              /\ <<pair[2], pair[1]>> \in Edges
        /\ \A e \in Edges :
              <<e[2], e[1]>> \in Edges =>
                  (<<e[1], e[2]>> \in Range(circular) \/ <<e[2], e[1]>> \in Range(circular))

\* A finished run with a mutual pair whose second edge goes from the larger
\* id to the smaller one.
C7_MutualPairSeen ==
    /\ pc = "done"
    /\ \E k, l \in DOMAIN internal_edges :
          /\ k < l
          /\ internal_edges[l] = <<internal_edges[k][2], internal_edges[k][1]>>
          /\ StrLess(internal_edges[k][1], internal_edges[k][2])
          /\ internal_edges[k] \in Range(circular)

\* A finished run with a cycle of three modules, no mutual pair, and an empty
\* circular list.
C7_LongCycleSeen ==
    /\ pc = "done"
    /\ circular = <<>>
    /\ \E a, b, c \in Ids :
          {<<a, b>>, <<b, c>>, <<c, a>>} \subseteq Edges /\ a # b /\ b # c /\ c # a

C9_LeafTieBreak ==
    pc = "done" =>
        \A i \in DOMAIN modules : \A k \in DOMAIN ImportData(i).imports :
            LET imp == ImportData(i).imports[k]
                m == modules[i].name
                t == ResolveAbsolute(modules, m, imp)
                cands == LeafCandidates(imp)
                near == {c \in cands :
                            Dirname(Get(modules, c).file) = Dirname(modules[i].file)}
                earlier == imp \in Ids
                           \/ \E id \in Ids : IsChildOf(id, imp) \/ IsParentOf(id, imp)
            IN (~earlier /\ Cardinality(cands) > 1) =>
                  /\ IF near # {} THEN t \in near ELSE t = FirstInRegistry(cands)
                  /\ t # m => <<m, t>> \in Edges

\* A finished run in which the lookup has two candidates, the first of them in
\* another directory, and the edge goes to the one in the importer's directory.
C9_SameDirectoryChosen ==
    /\ pc = "done"
    /\ \E i \in DOMAIN modules : \E k \in DOMAIN ImportData(i).imports :
          LET imp == ImportData(i).imports[k]
              m == modules[i].name
              cands == LeafCandidates(imp)
          IN /\ imp \notin Ids
             /\ ~\E id \in Ids : IsChildOf(id, imp) \/ IsParentOf(id, imp)
             /\ Cardinality(cands) > 1
             /\ \E c \in cands :
                   /\ c # m /\ c # FirstInRegistry(cands)
                   /\ Dirname(Get(modules, c).file) = Dirname(modules[i].file)
                   /\ <<m, c>> \in Edges
                   /\ <<m, FirstInRegistry(cands)>> \notin Edges

\* A finished run in which the lookup has two candidates, none in the
\* importer's directory, and the edge goes to the first.
C9_FirstCandidateChosen ==
    /\ pc = "done"
    /\ \E i \in DOMAIN modules : \E k \in DOMAIN ImportData(i).imports :
          LET imp == ImportData(i).imports[k]
              m == modules[i].name
              cands == LeafCandidates(imp)
          IN /\ imp \notin Ids
             /\ ~\E id \in Ids : IsChildOf(id, imp) \/ IsParentOf(id, imp)
             /\ Cardinality(cands) > 1
             /\ \A c \in cands :
                   Dirname(Get(modules, c).file) # Dirname(modules[i].file)
             /\ <<m, FirstInRegistry(cands)>> \in Edges

\* No strategy has a candidate for the absolute reference imp.
UnresolvedAbsolute(imp) ==
    /\ imp \notin Ids
    /\ ~\E id \in Ids : IsChildOf(id, imp) \/ IsParentOf(id, imp)
    /\ LeafCandidates(imp) = {}

\* No prefix of the resolved relative reference is registered.
UnresolvedRelative(m, rel_imp) ==
    LET parts == Split(resolve_relative_import(m, rel_imp), ".")
    IN \A n \in 1..Len(parts) : Join(SubSeq(parts, 1, n), ".") \notin Ids

Unparsed == {i \in DOMAIN modules : ~disk[modules[i].file].parses}

NoImports == [parses |-> TRUE, imports |-> <<>>, relative_imports |-> <<>>]

\* C18: a file that cannot be parsed does not abort the batch.  The extractor
\* returns the empty record for it, and the finished graph has the modules,
\* the edges and the external records it would have if the file declared no
\* imports.
C18_ParseFailureIsEmptyFile ==
    pc = "done" =>
        \A i \in Unparsed :
            LET file == modules[i].file
                g == build_import_graph(files, root_package,
                                        [disk EXCEPT ![file] = NoImports])
            IN /\ parse_imports_with_aliases(disk[file]) = EmptyImportData
               /\ modules = g.modules
               /\ internal_edges = g.internal_edges
               /\ external_deps = g.external_deps
               /\ Range(circular) = Range(FindCircular(g.internal_edges))

\* A finished run with a file that failed to parse, in which a reference
\* written in that file would have resolved to another module and an
\* unresolved one would have been recorded, and in which other files have
\* edges.
C18_BadFileAmongGoodSeen ==
    /\ pc = "done"
    /\ internal_edges # <<>>
    /\ \E i \in Unparsed :
          LET m == modules[i].name
              imps == disk[modules[i].file].imports
          IN /\ \E k \in DOMAIN imps :
                    ResolveAbsolute(modules, m, imps[k]) \notin {"", m}
             /\ \E k \in DOMAIN imps :
                    /\ ResolveAbsolute(modules, m, imps[k]) = ""
                    /\ FirstSegment(imps[k]) \notin EXTERNAL_PACKAGES

\* C19: a file that fails to parse is excluded from the module graph: it is
\* the file of no registry entry, and the failure is an entry of a warning
\* list of the result.
C19_ParseFailureExcluded ==
    pc = "done" =>
        \A f \in DOMAIN disk :
            ~disk[f].parses =>
                /\ \A i \in DOMAIN modules : modules[i].file # f
                /\ "warnings" \in ResultKeys

(***************************************************************************)
(* The priority scorer (lib/gap_features.py, calculate_priority_scores).   *)
(*                                                                         *)
(* Numbers: complexity and call sites are integers; a risk score is held  *)
(* in hundredths, a freshness weight in tenths, a composite score in      *)
(* thousandths.  A normalized signal is an exact fraction <<num, den>>.    *)
(* round(score, 3) is computed on the exact value (ties to even); the     *)
(* representation error of binary floating point is not modelled.  A      *)
(* reason is its tag; the number formatted into its text is not modelled. *)
(* A dict read with .get(key, default) is a function on the keys present. *)
(***************************************************************************)
GetOr(d, key, default) == IF key \in DOMAIN d THEN d[key] ELSE default

Max(a, b) == IF a >= b THEN a ELSE b

Min(a, b) == IF a <= b THEN a ELSE b

\* sub in s
Contains(s, sub) ==
    \E i \in 0..(Len(s) - Len(sub)) : SubSeq(s, i + 1, i + Len(sub)) = sub

\* func.rsplit(".", 1)[0], for a func that contains "."
ModulePart(func) == SubSeq(func, 1, LastIndexOf(func, ".", Len(func)) - 1)

\* Path(filepath).stem: the final component without its last suffix.
Stem(filepath) ==
    LET name == Basename(filepath)
        i == LastIndexOf(name, ".", Len(name))
    IN IF 1 < i /\ i < Len(name) THEN SubSeq(name, 1, i - 1) ELSE name

ProjectRoots == {"kosmos", "src", "lib", "tests"}

RECURSIVE FirstRootIndex(_, _)
FirstRootIndex(parts, i) ==
    IF i > Len(parts) THEN 0
    ELSE IF parts[i] \in ProjectRoots THEN i
    ELSE FirstRootIndex(parts, i + 1)

normalize_path(p) ==
    LET parts == Split(Replace(p, "\\", "/"), "/")
        i == FirstRootIndex(parts, 1)
    IN IF i > 0 THEN Join(SubSeq(parts, i, Len(parts)), "/")
       ELSE parts[Len(parts)]

\* min-max normalization of a dict key -> number; the result maps each key
\* to a fraction.
SetMax(xs) == CHOOSE x \in xs : \A y \in xs : y <= x

\* Variant of normalize_values: identical values map to 0 instead of 0.5.
normalize_values_ZeroWhenEqual(values) ==
    IF DOMAIN values = {} THEN values
    ELSE LET vs == {values[k] : k \in DOMAIN values}
             min_val == SetMin(vs)
             max_val == SetMax(vs)
         IN IF max_val = min_val
            THEN [k \in DOMAIN values |-> <<0, 1>>]
            ELSE [k \in DOMAIN values |-> <<values[k] - min_val, max_val - min_val>>]

\* Variant of normalize_values: the minimum is not subtracted.
normalize_values_NoShift(values) ==
    IF DOMAIN values = {} THEN values
    ELSE LET vs == {values[k] : k \in DOMAIN values}
             min_val == SetMin(vs)
             max_val == SetMax(vs)
         IN IF max_val = min_val
            THEN [k \in DOMAIN values |-> <<1, 2>>]
            ELSE [k \in DOMAIN values |-> <<values[k], max_val - min_val>>]

normalize_values(values) ==
    IF DOMAIN values = {} THEN values
    ELSE LET vs == {values[k] : k \in DOMAIN values}
             min_val == SetMin(vs)
             max_val == SetMax(vs)
         IN IF max_val = min_val
            THEN [k \in DOMAIN values |-> <<1, 2>>]
            ELSE [k \in DOMAIN values |-> <<values[k] - min_val, max_val - min_val>>]

(***************************************************************************)
(* Inputs of the scorer: results dicts built from three kinds of file.     *)
(*   busy  b01, b02, ...: a hotspot of complexity 20 at "/r/src/bNN.py"   *)
(*         and a risk record (0.60) at "src/bNN.py";                      *)
(*   risky r01, r02, ...: a risk record (0.90) at "src/rNN.py" only;      *)
(*   plain p01, ...:      two hotspots (10 and 4) at "/r/pkg/pNN.py", one *)
(*         without a file, and one (2) at "/q/pkg/pNN.py".                *)
(* Any subset of the five signal sources may be absent.                   *)
(***************************************************************************)
MaxBusy == 22

MaxRisky == 3

MaxPlain == 1

DigitChars == "0123456789"

TwoDigits(i) == CharAt(DigitChars, (i \div 10) + 1) \o CharAt(DigitChars, (i % 10) + 1)

BusyHotspot(i) == [file |-> "/r/src/b" \o TwoDigits(i) \o ".py", complexity |-> 20]

BusyRisk(i) ==
    [file |-> "src/b" \o TwoDigits(i) \o ".py", risk_score |-> 60, churn |-> 6, hotfixes |-> 0]

RiskyRisk(i) ==
    [file |-> "src/r" \o TwoDigits(i) \o ".py", risk_score |-> 90, churn |-> 10, hotfixes |-> 4]

PlainHotspots(i) ==
    << [file |-> "/r/pkg/p" \o TwoDigits(i) \o ".py", complexity |-> 10],
       [file |-> "", complexity |-> 99],
       [file |-> "/r/pkg/p" \o TwoDigits(i) \o ".py", complexity |-> 4],
       [file |-> "/q/pkg/p" \o TwoDigits(i) \o ".py", complexity |-> 2] >>

RECURSIVE Concat(_)
Concat(ss) == IF Len(ss) = 0 THEN <<>> ELSE ss[1] \o Concat(Tail(ss))

Sources == {"hotspots", "risk", "freshness", "calls", "tests"}

MakeResults(nb, nr, np, present) ==
    LET hotspots == [i \in 1..nb |-> BusyHotspot(i)]
                      \o Concat([i \in 1..np |-> PlainHotspots(i)])
        risk == [i \in 1..nb |-> BusyRisk(i)] \o [i \in 1..nr |-> RiskyRisk(i)]
        freshness ==
            << [category |-> "active",  files |-> <<"/r/src/b01.py">>],
               [category |-> "dormant", files |-> [i \in 1..nr |-> RiskyRisk(i).file]],
               [category |-> "aging",   files |-> <<"/r/pkg/p01.py", "src/b02.py">>],
               [category |-> "stale",   files |-> <<"src/b03.py", "gone.py">>],
               [category |-> "unknown", files |-> <<"src/b04.py">>] >>
        most_called == << [function |-> "b01.run",  call_sites |-> 12],
                          [function |-> "main",     call_sites |-> 50],
                          [function |-> "r01.load", call_sites |-> 3],
                          [function |-> "b01.stop", call_sites |-> 7] >>
        tested_modules == {"b01", "p01", "r02"}
        git == [k \in {"risk", "freshness"} \cap present |->
                   IF k = "risk" THEN risk ELSE freshness]
    IN [k \in ({"hotspots", "calls", "tests"} \cap present)
              \cup (IF DOMAIN git = {} THEN {} ELSE {"git"}) |->
           CASE k = "hotspots" -> hotspots
             [] k = "git" -> git
             [] k = "calls" -> [most_called |-> most_called]
             [] k = "tests" -> [tested_modules |-> tested_modules]]

\* The import analysis of the same project, as analyze_imports returns it:
\* every risky module imports every busy one, every plain module imports
\* the first busy one.
ImportAnalysis(nb, nr, np) ==
    LET Busy(i) == "src.b" \o TwoDigits(i)
        Risky(i) == "src.r" \o TwoDigits(i)
        Plain(i) == "pkg.p" \o TwoDigits(i)
        busy == [i \in 1..nb |->
                    [name |-> Busy(i), imports |-> <<>>,
                     imported_by |-> [j \in 1..nr |-> Risky(j)]
                         \o (IF i = 1 THEN [j \in 1..np |-> Plain(j)]
                             ELSE <<>>)]]
        risky == [i \in 1..nr |->
                     [name |-> Risky(i), imports |-> [j \in 1..nb |-> Busy(j)],
                      imported_by |-> <<>>]]
        plain == [i \in 1..np |->
                     [name |-> Plain(i),
                      imports |-> IF nb > 0 THEN <<Busy(1)>> ELSE <<>>,
                      imported_by |-> <<>>]]
    IN [graph |-> busy \o risky \o plain]

\* The results of a run of every analysis: the five sources of the scorer
\* and the import analysis.
FullResults(nb, nr, np) ==
    ("imports" :> ImportAnalysis(nb, nr, np)) @@ MakeResults(nb, nr, np, Sources)

ResultsUniverse ==
    {MakeResults(nb, nr, np, present) :
        nb \in 0..MaxBusy, nr \in 0..MaxRisky, np \in 0..MaxPlain,
        present \in SUBSET Sources}
    \cup {FullResults(nb, nr, np) :
             nb \in 0..MaxBusy, nr \in 0..MaxRisky, np \in 0..MaxPlain}

(***************************************************************************)
(* The collection loops.  files_data is a sequence of entries              *)
(* [file, cc, norm_path, opt]; opt holds the keys an entry may lack        *)
(* (git_risk, churn, hotfixes, import_weight, freshness).                  *)
(***************************************************************************)
FileIndex(fd, filepath) ==
    IF \E i \in DOMAIN fd : fd[i].file = filepath
    THEN CHOOSE i \in DOMAIN fd : fd[i].file = filepath
    ELSE 0

NewEntry(filepath, norm_path) ==
    [file |-> filepath, cc |-> 0, norm_path |-> norm_path, opt |-> <<>>]

SetOpt(fd, i, key, value) == [fd EXCEPT ![i].opt = (key :> value) @@ @]

\* One iteration of the loop over hotspots.
CollectHotspot(st, hs) ==
    LET filepath == hs.file
        norm_path == normalize_path(filepath)
        fd == IF FileIndex(st.files_data, filepath) = 0
              THEN Append(st.files_data, NewEntry(filepath, norm_path))
              ELSE st.files_data
        i == FileIndex(fd, filepath)
    IN IF filepath = "" THEN st
       ELSE [files_data |-> [fd EXCEPT ![i].cc = Max(@, hs.complexity)],
             path_map |-> (norm_path :> filepath) @@ st.path_map]

\* One iteration of the loop over the risk records.
CollectRisk(st, r) ==
    LET filepath == r.file
        norm_path == normalize_path(filepath)
        matched_path == GetOr(st.path_map, norm_path, filepath)
        known == FileIndex(st.files_data, matched_path) # 0
        fd == IF known THEN st.files_data
              ELSE Append(st.files_data, NewEntry(matched_path, norm_path))
        pm == IF known THEN st.path_map
              ELSE (norm_path :> matched_path) @@ st.path_map
        i == FileIndex(fd, matched_path)
    IN IF filepath = "" THEN st
       ELSE [files_data |-> SetOpt(SetOpt(SetOpt(fd, i, "git_risk", r.risk_score),
                                          i, "churn", r.churn),
                                   i, "hotfixes", r.hotfixes),
             path_map |-> pm]

\* The first entry, in insertion order, that the module part matches.
FirstMatch(fd, module_part) ==
    LET hits == {i \in DOMAIN fd : \/ Contains(fd[i].file, module_part)
                                   \/ Contains(fd[i].norm_path, module_part)}
    IN IF hits = {} THEN 0 ELSE SetMin(hits)

\* One iteration of the loop over most_called.
CollectCall(st, mc) ==
    LET func == mc.function
        i == FirstMatch(st.files_data, ModulePart(func))
    IN IF ~Contains(func, ".") \/ i = 0 THEN st
       ELSE [files_data |->
                SetOpt(st.files_data, i, "import_weight",
                       Max(GetOr(st.files_data[i].opt, "import_weight", 0),
                           mc.call_sites)),
             path_map |-> st.path_map]

\* The freshness weight of a category, in tenths.
FreshnessWeights == [active |-> 0, aging |-> 3, stale |-> 6, dormant |-> 10]

FreshnessDefault == 5

\* A variant of the inner loop that creates an entry for a file no earlier
\* source has named, instead of skipping it.
CollectFreshnessFile_AddsEntry(st, category, fp) ==
    LET weight == GetOr(FreshnessWeights, category, 0)
        matched_path == GetOr(st.path_map, normalize_path(fp), fp)
        fd == IF FileIndex(st.files_data, matched_path) = 0
              THEN Append(st.files_data,
                          NewEntry(matched_path, normalize_path(fp)))
              ELSE st.files_data
    IN [files_data |-> SetOpt(fd, FileIndex(fd, matched_path),
                              "freshness", weight),
        path_map |-> st.path_map]

\* One iteration of the inner loop over the files of a freshness category.
CollectFreshnessFile(st, category, fp) ==
    LET weight == GetOr(FreshnessWeights, category, 0)
        matched_path == GetOr(st.path_map, normalize_path(fp), fp)
        i == FileIndex(st.files_data, matched_path)
    IN IF i = 0 THEN st
       ELSE [files_data |-> SetOpt(st.files_data, i, "freshness", weight),
             path_map |-> st.path_map]

RECURSIVE CollectFreshnessFiles(_, _, _)
CollectFreshnessFiles(st, category, fs) ==
    IF Len(fs) = 0 THEN st
    ELSE CollectFreshnessFiles(CollectFreshnessFile(st, category, fs[1]),
                               category, Tail(fs))

CollectFreshness(st, c) == CollectFreshnessFiles(st, c.category, c.files)

\* One step of a stable sort by score, highest first: x goes after the
\* records that score at least as much.
InsertByScore(sorted, x) ==
    LET n == Cardinality({i \in DOMAIN sorted : sorted[i].score >= x.score})
    IN SubSeq(sorted, 1, n) \o <<x>> \o SubSeq(sorted, n + 1, Len(sorted))

\* The body of each loop of the function.
LoopBody(loop, st, x) ==
    CASE loop = "hotspots" -> CollectHotspot(st, x)
      [] loop = "risk" -> CollectRisk(st, x)
      [] loop = "most_called" -> CollectCall(st, x)
      [] loop = "freshness" -> CollectFreshness(st, x)
      [] loop = "sort" -> InsertByScore(st, x)

\* A loop: its body applied to each element of xs in turn.  (The test on
\* next fixes the order of evaluation: an iteration is computed before the
\* following one starts.)
RECURSIVE Fold(_, _, _)
Fold(loop, st, xs) ==
    IF Len(xs) = 0 THEN st
    ELSE LET next == LoopBody(loop, st, xs[1])
         IN IF next = next THEN Fold(loop, next, Tail(xs)) ELSE st

(***************************************************************************)
(* Scoring and ranking.                                                    *)
(***************************************************************************)
\* The weights of the composite score, in thousandths.
Weights == [cc |-> 250, imp |-> 200, risk |-> 300, fresh |-> 150, untested |-> 100]

\* round(n / d) to an integer, ties to even.
RoundHalfEven(n, d) ==
    LET q == n \div d
        r == n % d
    IN IF 2 * r > d \/ (2 * r = d /\ q % 2 = 1) THEN q + 1 ELSE q

\* Variant of CompositeScore: four signals, weights 0.35, 0.25, 0.25, 0.15.
CompositeScore_FourSignal(s_cc, s_imp, s_risk, s_fresh, s_untested) ==
    LET d == s_cc[2] * s_imp[2] * s_risk[2] * s_fresh[2]
        n == 350 * s_cc[1] * (s_imp[2] * s_risk[2] * s_fresh[2])
             + 250 * s_imp[1] * (s_cc[2] * s_risk[2] * s_fresh[2])
             + 250 * s_risk[1] * (s_cc[2] * s_imp[2] * s_fresh[2])
             + 150 * s_fresh[1] * (s_cc[2] * s_imp[2] * s_risk[2])
    IN RoundHalfEven(n, d)

\* round(score, 3) of the weighted sum, in thousandths.
CompositeScore(s_cc, s_imp, s_risk, s_fresh, s_untested) ==
    LET d == s_cc[2] * s_imp[2] * s_risk[2] * s_fresh[2]
        n == Weights.cc * s_cc[1] * (s_imp[2] * s_risk[2] * s_fresh[2])
             + Weights.imp * s_imp[1] * (s_cc[2] * s_risk[2] * s_fresh[2])
             + Weights.risk * s_risk[1] * (s_cc[2] * s_imp[2] * s_fresh[2])
             + Weights.fresh * s_fresh[1] * (s_cc[2] * s_imp[2] * s_risk[2])
             + Weights.untested * s_untested * d
    IN RoundHalfEven(n, d)

Reasons(data, s_untested) ==
    LET tags == << <<"CC", data.cc > 10>>,
                   <<"risk", GetOr(data.opt, "git_risk", 0) > 50>>,
                   <<"churn", GetOr(data.opt, "churn", 0) > 5>>,
                   <<"hotfix", GetOr(data.opt, "hotfixes", 0) > 3>>,
                   <<"many callers", GetOr(data.opt, "import_weight", 0) > 10>>,
                   <<"untested", s_untested > 0>> >>
        Holds(t) == t[2]
        reasons == [i \in DOMAIN SelectSeq(tags, Holds) |-> SelectSeq(tags, Holds)[i][1]]
    IN IF Len(reasons) = 0 THEN <<"active">> ELSE reasons

\* The signal dicts of files_data and their normalizations.
Signal(fd, key, default) ==
    [f \in {fd[i].file : i \in DOMAIN fd} |->
        GetOr(fd[FileIndex(fd, f)].opt, key, default)]

ComplexitySignal(fd) ==
    [f \in {fd[i].file : i \in DOMAIN fd} |-> fd[FileIndex(fd, f)].cc]

\* The record of one entry of files_data.
ScoreOne(data, n_cc, n_imp, n_risk, n_fresh, tested_modules) ==
    LET s_untested == IF Stem(data.file) \in tested_modules THEN 0 ELSE 1
    IN [file |-> data.file,
        score |-> CompositeScore(n_cc[data.file], n_imp[data.file],
                                 n_risk[data.file], n_fresh[data.file], s_untested),
        reasons |-> Reasons(data, s_untested),
        raw_risk |-> GetOr(data.opt, "git_risk", 0)]

\* The scoring loop: an entry whose normalized path was seen is skipped.
ScoreAll(fd, tested_modules) ==
    LET n_cc == normalize_values(ComplexitySignal(fd))
        n_imp == normalize_values(Signal(fd, "import_weight", 0))
        n_risk == normalize_values(Signal(fd, "git_risk", 0))
        n_fresh == normalize_values(Signal(fd, "freshness", FreshnessDefault))
        First(i) == \A j \in 1..(i - 1) : fd[j].norm_path # fd[i].norm_path
        kept == SelectSeq([i \in DOMAIN fd |-> i], First)
    IN [k \in DOMAIN kept |->
           ScoreOne(fd[kept[k]], n_cc, n_imp, n_risk, n_fresh, tested_modules)]

\* list.sort(key=score, reverse=True): stable, highest score first.
SortByScore(xs) == Fold("sort", <<>>, xs)

TopN == 20

MaxAdditions == 3

HighRisk == 70

WithoutRawRisk(pf) == [file |-> pf.file, score |-> pf.score, reasons |-> pf.reasons]

\* The fallback and the final cut, on the sorted priority_files.
RankWithFallback(sorted) ==
    LET IsHighRisk(pf) == pf.raw_risk > HighRisk
        top_risk_files == SelectSeq(sorted, IsHighRisk)
        top == SubSeq(sorted, 1, Min(TopN, Len(sorted)))
        top_20_paths == {top[i].file : i \in DOMAIN top}
        Missing(pf) == pf.file \notin top_20_paths
        additions == SelectSeq(SubSeq(top_risk_files, 1,
                                      Min(MaxAdditions, Len(top_risk_files))), Missing)
        appended == top \o additions
        resorted == SortByScore([i \in DOMAIN appended |-> WithoutRawRisk(appended[i])])
    IN SubSeq(resorted, 1, Min(TopN, Len(resorted)))

(***************************************************************************)
(* calculate_priority_scores as a state machine: one step per loop.        *)
(***************************************************************************)
InitPriority ==
    /\ results \in ResultsUniverse
    /\ files_data = <<>>
    /\ path_map = <<>>
    /\ priority_files = <<>>
    /\ top_20 = <<>>
    /\ spc = "hotspots"
    /\ GraphIdle
    /\ AnalysisIdle
    /\ DetectIdle

Collected(st) ==
    /\ files_data' = st.files_data
    /\ path_map' = st.path_map

Collecting == [files_data |-> files_data, path_map |-> path_map]

CollectHotspots ==
    /\ spc = "hotspots"
    /\ Collected(Fold("hotspots", Collecting, GetOr(results, "hotspots", <<>>)))
    /\ spc' = "risk"
    /\ UNCHANGED <<results, priority_files, top_20>>
    /\ UNCHANGED graph_vars
    /\ UNCHANGED analysis_vars
    /\ UNCHANGED detect_vars

CollectRisks ==
    /\ spc = "risk"
    /\ Collected(Fold("risk", Collecting,
                      GetOr(GetOr(results, "git", <<>>), "risk", <<>>)))
    /\ spc' = "calls"
    /\ UNCHANGED <<results, priority_files, top_20>>
    /\ UNCHANGED graph_vars
    /\ UNCHANGED analysis_vars
    /\ UNCHANGED detect_vars

CollectCalls ==
    /\ spc = "calls"
    /\ Collected(Fold("most_called", Collecting,
                      GetOr(GetOr(results, "calls", <<>>), "most_called", <<>>)))
    /\ spc' = "freshness"
    /\ UNCHANGED <<results, priority_files, top_20>>
    /\ UNCHANGED graph_vars
    /\ UNCHANGED analysis_vars
    /\ UNCHANGED detect_vars

CollectFreshnesses ==
    /\ spc = "freshness"
    /\ Collected(Fold("freshness", Collecting,
                      GetOr(GetOr(results, "git", <<>>), "freshness", <<>>)))
    /\ spc' = "score"
    /\ UNCHANGED <<results, priority_files, top_20>>
    /\ UNCHANGED graph_vars
    /\ UNCHANGED analysis_vars
    /\ UNCHANGED detect_vars

ScoreFiles ==
    /\ spc = "score"
    /\ priority_files' =
          ScoreAll(files_data,
                   GetOr(GetOr(results, "tests", <<>>), "tested_modules", {}))
    /\ spc' = "rank"
    /\ UNCHANGED <<results, files_data, path_map, top_20>>
    /\ UNCHANGED graph_vars
    /\ UNCHANGED analysis_vars
    /\ UNCHANGED detect_vars

\* The sort, the fallback, the second sort and the cut; priority_files is
\* left as the first sort made it.
RankFiles ==
    /\ spc = "rank"
    /\ priority_files' = SortByScore(priority_files)
    /\ top_20' = RankWithFallback(SortByScore(priority_files))
    /\ spc' = "returned"
    /\ UNCHANGED <<results, files_data, path_map>>
    /\ UNCHANGED graph_vars
    /\ UNCHANGED analysis_vars
    /\ UNCHANGED detect_vars

NextPriority ==
    \/ CollectHotspots
    \/ CollectRisks
    \/ CollectCalls
    \/ CollectFreshnesses
    \/ ScoreFiles
    \/ RankFiles

SpecPriority == InitPriority /\ [][NextPriority]_vars

\* The function as a whole.
calculate_priority_scores(res) ==
    LET st1 == Fold("hotspots", [files_data |-> <<>>, path_map |-> <<>>],
                    GetOr(res, "hotspots", <<>>))
        st2 == Fold("risk", st1, GetOr(GetOr(res, "git", <<>>), "risk", <<>>))
        st3 == Fold("most_called", st2,
                    GetOr(GetOr(res, "calls", <<>>), "most_called", <<>>))
        st4 == Fold("freshness", st3,
                    GetOr(GetOr(res, "git", <<>>), "freshness", <<>>))
        scored == ScoreAll(st4.files_data,
                           GetOr(GetOr(res, "tests", <<>>), "tested_modules", {}))
    IN RankWithFallback(SortByScore(scored))

PriorityStepsAgreeWithFunction ==
    spc = "returned" => top_20 = calculate_priority_scores(results)

(***************************************************************************)
(* Properties of the priority scorer.                                      *)
(***************************************************************************)
Returned == spc = "returned"

ReturnedFiles == {top_20[i].file : i \in DOMAIN top_20}

\* The positions, in the ranking by composite score, of the files outside
\* the top 20 whose raw git risk exceeds 0.7.
HiddenHighRisk ==
    {i \in DOMAIN priority_files :
        i > TopN /\ priority_files[i].raw_risk > HighRisk}

\* C1: fallback re-injection.  When more than 20 files are scored, the files
\* whose raw git risk exceeds 0.7 and whose composite score ranks them
\* outside the top 20 still appear in the returned list, up to 3 of them.
C1_HighRiskReinjected ==
    Returned /\ Len(priority_files) > TopN =>
        Cardinality({i \in HiddenHighRisk : priority_files[i].file \in ReturnedFiles})
            >= Min(MaxAdditions, Cardinality(HiddenHighRisk))

\* What the code returns instead: the first 20 of the ranking, whatever the
\* risk of the files beyond them.
ReturnedIsTopOfRanking ==
    Returned =>
        /\ Len(top_20) = Min(TopN, Len(priority_files))
        /\ \A i \in DOMAIN top_20 : top_20[i] = WithoutRawRisk(priority_files[i])

\* The four signal dicts the scoring step normalizes, once files_data is
\* complete.
SignalsCollected == spc \in {"score", "rank", "returned"}

SignalDicts ==
    << ComplexitySignal(files_data),
       Signal(files_data, "import_weight", 0),
       Signal(files_data, "git_risk", 0),
       Signal(files_data, "freshness", FreshnessDefault) >>

ValuesOf(values) == {values[k] : k \in DOMAIN values}

\* v as a fraction equals n / d.
FractionIs(frac, n, d) == frac[2] > 0 /\ frac[1] * d = n * frac[2]

\* C13: normalize_values is min-max normalization.  On a map with two
\* distinct values or more the minimum maps to 0, the maximum to 1 and every
\* value v to (v - min) / (max - min), which lies in [0, 1]; {0, 10, 20}
\* gives {0, 1/2, 1}.  On a map whose values are all the same (a single entry
\* included) every key maps to 1/2.  The empty map gives the empty map.
C13_MinMaxNormalization ==
    /\ LET n == normalize_values([a |-> 0, b |-> 10, c |-> 20])
       IN FractionIs(n.a, 0, 1) /\ FractionIs(n.b, 1, 2) /\ FractionIs(n.c, 1, 1)
    /\ DOMAIN normalize_values(<<>>) = {}
    /\ SignalsCollected =>
          \A values \in {SignalDicts[s] : s \in 1..4} :
              \A n \in {normalize_values(values)} :
                 /\ DOMAIN n = DOMAIN values
                 /\ DOMAIN values # {} =>
                       \A lo \in {SetMin(ValuesOf(values))} :
                       \A hi \in {SetMax(ValuesOf(values))} :
                          \A k \in DOMAIN values :
                             /\ n[k][2] > 0 /\ 0 <= n[k][1] /\ n[k][1] <= n[k][2]
                             /\ lo # hi => /\ FractionIs(n[k], values[k] - lo, hi - lo)
                                           /\ values[k] = lo => n[k][1] = 0
                                           /\ values[k] = hi => n[k][1] = n[k][2]
                             /\ lo = hi => FractionIs(n[k], 1, 2)

\* The scoring step has run on files whose complexities take three values or
\* more, whose import weights are all the same, and whose risks take two
\* values or more.
C13_SpreadAndFlatSignalsSeen ==
    /\ spc = "rank"
    /\ Len(files_data) >= 3
    /\ Cardinality(ValuesOf(SignalDicts[1])) >= 3
    /\ Cardinality(ValuesOf(SignalDicts[2])) = 1
    /\ Cardinality(ValuesOf(SignalDicts[3])) >= 2

\* The sum of weight * fraction over terms, as a fraction <<n, d>>.
RECURSIVE WeightedSum(_)
WeightedSum(terms) ==
    IF Len(terms) = 0 THEN <<0, 1>>
    ELSE LET rest == WeightedSum(Tail(terms))
             w == terms[1][1]
             f == terms[1][2]
         IN <<w * f[1] * rest[2] + rest[1] * f[2], f[2] * rest[2]>>

\* score (in thousandths) is the sum rounded to three decimals.
IsRounded(score, sum) ==
    LET diff == score * sum[2] - sum[1]
    IN 2 * diff <= sum[2] /\ 2 * (0 - diff) <= sum[2]

Scored == spc \in {"rank", "returned"}

CoverageSupplied == "tests" \in DOMAIN results

TestedModules == GetOr(GetOr(results, "tests", <<>>), "tested_modules", {})

Untested(f) == IF Stem(f) \in TestedModules THEN <<0, 1>> ELSE <<1, 1>>

Normalized(s, f) == normalize_values(SignalDicts[s])[f]

AllSourcesSupplied ==
    /\ DOMAIN results = {"hotspots", "git", "calls", "tests"}
    /\ DOMAIN results.git = {"risk", "freshness"}

\* C15: every record calculate_priority_scores builds, and so every record
\* it returns, has a composite score in [0, 1] (0 to 1000 thousandths),
\* whichever signal sources are present.
C15_ScoreInUnitInterval ==
    /\ Scored =>
          \A i \in DOMAIN priority_files :
              priority_files[i].score >= 0 /\ priority_files[i].score <= 1000
    /\ Returned =>
          \A i \in DOMAIN top_20 :
              top_20[i].score >= 0 /\ top_20[i].score <= 1000

\* A full list of 20 records returned for an input with every source present,
\* with scores on both sides of one half.
C15_FullListReturnedSeen ==
    /\ Returned
    /\ AllSourcesSupplied
    /\ Len(top_20) = TopN
    /\ \E i, j \in DOMAIN top_20 : top_20[i].score > 500 /\ top_20[j].score < 500

(***************************************************************************)
(* The analyses run on a finished graph (lib/import_analysis.py):          *)
(* calculate_dependency_distance, identify_layers, is_entry_point,         *)
(* find_orphans, and analyze_imports, which runs them in turn.             *)
(***************************************************************************)
UpperChars == "ABCDEFGHIJKLMNOPQRSTUVWXYZ"

LowerChars == "abcdefghijklmnopqrstuvwxyz"

LowerChar(c) ==
    IF \E i \in 1..Len(UpperChars) : CharAt(UpperChars, i) = c
    THEN CharAt(LowerChars, CHOOSE i \in 1..Len(UpperChars) : CharAt(UpperChars, i) = c)
    ELSE c

\* str.lower
RECURSIVE Lower(_)
Lower(s) ==
    IF Len(s) = 0 THEN ""
    ELSE LowerChar(CharAt(s, 1)) \o Lower(SubSeq(s, 2, Len(s)))

ENTRY_POINT_PATTERNS ==
    {"main.py", "__main__.py", "cli.py", "app.py", "wsgi.py", "asgi.py",
     "setup.py", "manage.py", "fabfile.py", "conftest.py"}

ORCHESTRATION_KEYWORDS ==
    <<"manager", "orchestrator", "coordinator", "workflow", "pipeline", "factory", "runner">>

FOUNDATION_KEYWORDS ==
    <<"util", "utils", "base", "common", "helper", "abstract", "config", "constants">>

\* any(kw in s for kw in keywords)
ContainsAny(s, keywords) == \E k \in DOMAIN keywords : Contains(s, keywords[k])

(***************************************************************************)
(* Inputs of the analyses: projects under "/r" made of some of the files   *)
(* below, each file with one of the contents listed for it.  A content is  *)
(* what the extractor and is_entry_point can see of it: whether it can be  *)
(* read, whether it parses, whether its text holds a run-as-program guard, *)
(* and the references it declares.                                         *)
(***************************************************************************)
Source(readable, ok, guard, abs) ==
    [readable |-> readable, parses |-> readable /\ ok, guard |-> guard,
     imports |-> abs, relative_imports |-> <<>>]

ProjectFiles ==
    << "/r/main.py", "/r/pkg/__init__.py", "/r/pkg/OrderManager.py",
       "/r/pkg/utils_manager.py", "/r/pkg/base.py", "/r/pkg/engine.py",
       "/r/pkg/store.py", "/r/pkg/tool.py", "/r/test_engine.py",
       "/r/pkg/engine_test.py", "/r/pkg/holder.py", "/r/scripts/old_job.py",
       "/r/pkg/old_helper.py" >>

Contents(f) ==
    CASE f = "/r/main.py" ->
           << Source(TRUE, TRUE, FALSE,
                     <<"pkg.engine", "pkg.store", "pkg.OrderManager", "pkg.tool">>) >>
      [] f = "/r/pkg/__init__.py" ->
           << Source(TRUE, TRUE, FALSE, <<>>) >>
      [] f = "/r/pkg/OrderManager.py" ->
           << Source(TRUE, TRUE, FALSE, <<>>),
              Source(TRUE, TRUE, FALSE, <<"pkg.tool">>) >>
      [] f = "/r/pkg/utils_manager.py" ->
           << Source(TRUE, TRUE, FALSE, <<"pkg.engine">>) >>
      [] f = "/r/pkg/base.py" ->
           << Source(TRUE, TRUE, FALSE, <<>>),
              Source(TRUE, TRUE, FALSE, <<"pkg.engine", "pkg.store", "pkg.OrderManager">>) >>
      [] f = "/r/pkg/engine.py" ->
           << Source(TRUE, TRUE, FALSE, <<"pkg.store">>),
              Source(TRUE, TRUE, FALSE, <<"pkg.OrderManager", "pkg.base">>),
              Source(TRUE, TRUE, FALSE, <<>>) >>
      [] f = "/r/pkg/store.py" ->
           << Source(TRUE, TRUE, FALSE, <<"pkg.OrderManager">>),
              Source(TRUE, TRUE, FALSE, <<"pkg.base">>),
              Source(TRUE, TRUE, FALSE, <<"pkg.engine">>) >>
      [] f = "/r/pkg/tool.py" ->
           << Source(TRUE, TRUE, TRUE, <<"pkg.engine">>) >>
      [] f = "/r/test_engine.py" ->
           << Source(TRUE, TRUE, FALSE, <<"pkg.engine">>) >>
      [] f = "/r/pkg/engine_test.py" ->
           << Source(TRUE, TRUE, FALSE, <<"pkg.engine">>) >>
      [] f = "/r/pkg/holder.py" ->
           << Source(TRUE, TRUE, FALSE, <<>>) >>
      [] f = "/r/scripts/old_job.py" ->
           << Source(TRUE, TRUE, FALSE, <<"pkg.store">>) >>
      [] f = "/r/pkg/old_helper.py" ->
           << Source(FALSE, FALSE, TRUE, <<"pkg.engine">>),
              Source(TRUE, FALSE, TRUE, <<"pkg.engine">>) >>

MaxModules == 4

\* The file lists: up to MaxModules files, in the order of ProjectFiles.
ProjectLists ==
    {SelectSeq(ProjectFiles, LAMBDA f : f \in chosen) :
        chosen \in {c \in SUBSET Range(ProjectFiles) :
                       c # {} /\ Cardinality(c) <= MaxModules}}

\* Every way of giving each file of fs one of its contents (a file has at
\* most three).
ProjectDisks(fs) ==
    {[f \in Range(fs) |-> Contents(f)[pick[f]]] :
        pick \in {p \in [Range(fs) -> 1..3] :
                     \A f \in Range(fs) : p[f] <= Len(Contents(f))}}

(***************************************************************************)
(* calculate_dependency_distance.                                          *)
(***************************************************************************)
\* The element of a one-element set; Only({e(x) : x \in {v}}) is e(v) with
\* v computed once.
Only(S) == CHOOSE x \in S : TRUE

\* adjacency: module -> set(imports).
Adjacency(mods) ==
    [name \in Range(Keys(mods)) |-> Range(Get(mods, name).imports)]

\* The "distances" dict of one traversal: breadth first, one level per call.
RECURSIVE BFSLevels(_, _, _, _)
BFSLevels(adjacency, frontier, dist, d) ==
    IF frontier = {} THEN dist
    ELSE Only({Only({BFSLevels(adjacency, next, reached, d + 1) :
                        reached \in {[n \in next |-> d + 1] @@ dist}}) :
                  next \in {(UNION {adjacency[u] : u \in frontier}) \ DOMAIN dist}})

BFS(adjacency, start_module) ==
    BFSLevels(adjacency, {start_module}, [n \in {start_module} |-> 0], 0)

\* The nodes through which a traversal can first reach each node: a node one
\* level up that imports it.  Which one comes first depends on the iteration
\* order of the adjacency sets, which the code does not fix.
ParentChoices(adjacency, dist) ==
    {p \in [{n \in DOMAIN dist : dist[n] > 0} -> DOMAIN dist] :
        \A n \in DOMAIN p : dist[p[n]] = dist[n] - 1 /\ n \in adjacency[p[n]]}

\* paths[n] = paths[parent] + [n]
RECURSIVE PathTo(_, _, _)
PathTo(parent, start_module, n) ==
    IF n = start_module THEN <<start_module>>
    ELSE Append(PathTo(parent, start_module, parent[n]), n)

\* Variant of DistancesFrom: hops counts the nodes of the path.
DistancesFrom_CountsNodes(start_module, dist, parent) ==
    [pair \in {<<start_module, n>> : n \in {m \in DOMAIN dist : dist[m] > 0}} |->
        [hops |-> dist[pair[2]] + 1, path |-> PathTo(parent, start_module, pair[2])]]

\* The entries one traversal adds to all_distances.
DistancesFrom(start_module, dist, parent) ==
    [pair \in {<<start_module, n>> : n \in {m \in DOMAIN dist : dist[m] > 0}} |->
        [hops |-> dist[pair[2]], path |-> PathTo(parent, start_module, pair[2])]]

\* Every all_distances dict the traversals from starts[i..] can add to acc.
RECURSIVE AllDistances(_, _, _, _)
AllDistances(adjacency, starts, i, acc) ==
    IF i > Len(starts) THEN {acc}
    ELSE UNION {UNION {UNION {AllDistances(adjacency, starts, i + 1, added) :
                                 added \in {DistancesFrom(starts[i], dist, parent) @@ acc}} :
                          parent \in ParentChoices(adjacency, dist)} :
                   dist \in {BFS(adjacency, starts[i])}}

\* The nodes one traversal reaches, in the order it stores them: by level.
\* (Within a level the order follows the iteration order of the adjacency
\* sets; registry order stands for it here.)
RECURSIVE ReachedInOrder(_, _, _)
ReachedInOrder(starts, dist, d) ==
    IF d > Len(starts) THEN <<>>
    ELSE SelectSeq(starts, LAMBDA n : n \in DOMAIN dist /\ dist[n] = d)
         \o ReachedInOrder(starts, dist, d + 1)

\* The keys of all_distances in the order the traversals insert them.
RECURSIVE PairsInOrder(_, _, _)
PairsInOrder(adjacency, starts, i) ==
    IF i > Len(starts) THEN <<>>
    ELSE Only({[k \in 1..Len(ends) |-> <<starts[i], ends[k]>>] :
                  ends \in {Only({ReachedInOrder(starts, dist, 1) :
                                     dist \in {BFS(adjacency, starts[i])}})}})
         \o PairsInOrder(adjacency, starts, i + 1)

\* Variant of IsTightlyCoupled: of the two orders of a pair, the one with
\* the larger name first is kept.
IsTightlyCoupled_LargerFirst(dists, a, b) ==
    /\ dists[<<a, b>>].hops <= 2
    /\ <<b, a>> \in DOMAIN dists
    /\ StrLess(b, a)

\* if info["hops"] <= 2 and (b, a) in all_distances: if a < b
IsTightlyCoupled(dists, a, b) ==
    /\ dists[<<a, b>>].hops <= 2
    /\ <<b, a>> \in DOMAIN dists
    /\ StrLess(a, b)

TightLimit == 10

HubLimit == 10

TightRecord(dists, pair) ==
    [file_a |-> pair[1], file_b |-> pair[2], bidirectional |-> TRUE,
     distance |-> dists[pair].hops]

\* tightly_coupled[:10]
tightly_coupled(dists, pairs) ==
    Only({[k \in 1..Min(TightLimit, Len(hits)) |-> TightRecord(dists, hits[k])] :
             hits \in {SelectSeq(pairs, LAMBDA p : IsTightlyCoupled(dists, p[1], p[2]))}})

\* One step of a stable sort of <<key, value>> pairs, highest key first.
InsertByKey(sorted, x) ==
    LET n == Cardinality({i \in DOMAIN sorted : sorted[i][1] >= x[1]})
    IN SubSeq(sorted, 1, n) \o <<x>> \o SubSeq(sorted, n + 1, Len(sorted))

RECURSIVE SortByKey(_, _, _)
SortByKey(sorted, xs, i) ==
    IF i > Len(xs) THEN sorted
    ELSE Only({SortByKey(next, xs, i + 1) : next \in {InsertByKey(sorted, xs[i])}})

\* The values of a sequence of <<key, value>> pairs.
Values(ps) == [k \in 1..Len(ps) |-> ps[k][2]]

HubRecord(c) == [module |-> c[2], connections |-> c[1]]

\* connection_counts.most_common(10), the zero counts dropped.
hub_modules(mods) ==
    Only({[k \in 1..Len(kept) |-> HubRecord(kept[k])] :
             kept \in {Only({SelectSeq(SubSeq(ranked, 1, Min(HubLimit, Len(ranked))),
                                       LAMBDA c : c[1] > 0) :
                                ranked \in {SortByKey(<<>>,
                                    [i \in 1..Len(mods) |->
                                        <<Len(mods[i].imports) + Len(mods[i].imported_by),
                                          mods[i].name>>], 1)}})}})

RECURSIVE SumSeq(_)
SumSeq(xs) == IF Len(xs) = 0 THEN 0 ELSE xs[1] + SumSeq(Tail(xs))

\* The returned dict without "distances"; avg_depth in hundredths.
Summary(mods, dists, pairs, all_depths) ==
    [max_depth |-> IF Len(all_depths) > 0 THEN SetMax(Range(all_depths)) ELSE 0,
     avg_depth |-> IF Len(all_depths) > 0
                   THEN RoundHalfEven(100 * SumSeq(all_depths), Len(all_depths))
                   ELSE 0,
     tightly_coupled |-> tightly_coupled(dists, pairs),
     hub_modules |-> hub_modules(mods)]

\* The summary of one all_distances dict.
DistanceSummary(mods, adjacency, dists) ==
    Only({Only({Summary(mods, dists, pairs, all_depths) :
                   all_depths \in {[k \in 1..Len(pairs) |-> dists[pairs[k]].hops]}}) :
             pairs \in {PairsInOrder(adjacency, Keys(mods), 1)}})

\* Every result of calculate_dependency_distance on a registry:
\* <<all_distances, the rest of the returned dict>>.
calculate_dependency_distance(mods) ==
    IF Len(mods) = 0
    THEN {<< <<>>, [max_depth |-> 0, avg_depth |-> 0, tightly_coupled |-> <<>>,
                    hub_modules |-> <<>>] >>}
    ELSE UNION {{<<dists, DistanceSummary(mods, adjacency, dists)>> :
                    dists \in AllDistances(adjacency, Keys(mods), 1, <<>>)} :
                  adjacency \in {Adjacency(mods)}}

(***************************************************************************)
(* identify_layers.                                                        *)
(***************************************************************************)
\* The layer the name alone decides ("" when it decides none):
\* module_lower = name.lower(), then the two keyword tests in their order.
KeywordLayer(name) ==
    LET module_lower == Lower(name)
    IN IF ContainsAny(module_lower, ORCHESTRATION_KEYWORDS) THEN "orchestration"
       ELSE IF ContainsAny(module_lower, FOUNDATION_KEYWORDS) THEN "foundation"
       ELSE ""

\* Variant of KeywordLayer: the foundation keywords are tested first.
KeywordLayer_FoundationFirst(name) ==
    LET module_lower == Lower(name)
    IN IF ContainsAny(module_lower, FOUNDATION_KEYWORDS) THEN "foundation"
       ELSE IF ContainsAny(module_lower, ORCHESTRATION_KEYWORDS) THEN "orchestration"
       ELSE ""

\* The ids the files of the projects can be registered under.
ProjectModules == {CanonicalName(f, RootDir, "") : f \in Range(ProjectFiles)}

\* KeywordLayer of every id of the projects, evaluated once.
KeywordLayers == [name \in ProjectModules |-> KeywordLayer(name)]

\* Variant of LayerOf: the ratio rules come before the keywords.
LayerOf_RatioFirst(name, imports_count, imported_by_count) ==
    IF imported_by_count = 0 /\ imports_count = 0 THEN "leaf"
    ELSE IF imported_by_count > 2 * (imports_count + 1) THEN "foundation"
    ELSE IF KeywordLayers[name] # "" THEN KeywordLayers[name]
    ELSE IF 2 * imported_by_count < imports_count + 1 /\ imports_count > 2
         THEN "orchestration"
    ELSE "core"

\* Variant of LayerOf: a low ratio alone makes a module orchestration.
LayerOf_NoImportFloor(name, imports_count, imported_by_count) ==
    IF KeywordLayers[name] # "" THEN KeywordLayers[name]
    ELSE IF imported_by_count = 0 /\ imports_count = 0 THEN "leaf"
    ELSE IF imported_by_count > 2 * (imports_count + 1) THEN "foundation"
    ELSE IF 2 * imported_by_count < imports_count + 1 THEN "orchestration"
    ELSE "core"

\* The if/elif chain; ratio = imported_by_count / (imports_count + 1), so
\* ratio > 2 and ratio < 0.5 are compared after clearing the denominator.
LayerOf(name, imports_count, imported_by_count) ==
    IF KeywordLayers[name] # "" THEN KeywordLayers[name]
    ELSE IF imported_by_count = 0 /\ imports_count = 0 THEN "leaf"
    ELSE IF imported_by_count > 2 * (imports_count + 1) THEN "foundation"
    ELSE IF 2 * imported_by_count < imports_count + 1 /\ imports_count > 2
         THEN "orchestration"
    ELSE "core"

LayerNames == {"foundation", "core", "orchestration", "leaf"}

\* The layer each module of the registry is appended to.
Assignment(mods) ==
    [i \in 1..Len(mods) |->
        LayerOf(mods[i].name, Len(mods[i].imports), Len(mods[i].imported_by))]

\* Variant of LayerMembers: a module with a foundation keyword is appended to
\* foundation as well as to the layer the chain gives it.
LayerMembers_AlsoByKeyword(mods, assigned, layer) ==
    LET picked == SelectSeq([i \in 1..Len(mods) |-> i], LAMBDA i :
                      \/ assigned[i] = layer
                      \/ layer = "foundation"
                         /\ KeywordLayer_FoundationFirst(mods[i].name) = "foundation")
    IN [k \in 1..Len(picked) |-> mods[picked[k]]]

\* The modules the loop appends to one layer, in registry order.
LayerMembers(mods, assigned, layer) ==
    LET picked == SelectSeq([i \in 1..Len(mods) |-> i], LAMBDA i : assigned[i] = layer)
    IN [k \in 1..Len(picked) |-> mods[picked[k]]]

\* One layer list after its sort by number of importers, highest first.
LayerList(mods, assigned, layer) ==
    Only({Values(SortByKey(<<>>, [k \in 1..Len(members) |->
                                     <<Len(members[k].imported_by), members[k].name>>], 1)) :
             members \in {LayerMembers(mods, assigned, layer)}})

identify_layers(mods) ==
    Only({[layer \in LayerNames |-> LayerList(mods, assigned, layer)] :
             assigned \in {Assignment(mods)}})

(***************************************************************************)
(* Orphan detection.                                                       *)
(***************************************************************************)
\* The three tests on the file name.
NamedEntryPoint(filename) ==
    \/ filename \in ENTRY_POINT_PATTERNS
    \/ StartsWith(filename, "test_")
    \/ EndsWith(filename, "_test.py")

\* The files of the projects whose name makes them entry points, evaluated once.
NamedEntryPoints == {f \in Range(ProjectFiles) : NamedEntryPoint(Basename(f))}

\* Variant of is_entry_point: only the text of the file counts.
is_entry_point_GuardOnly(filepath, d) ==
    d[filepath].readable /\ d[filepath].guard

\* The name tests, else the guard in the text; a file that cannot be read
\* is not an entry point (except: return False).
is_entry_point(filepath, d) ==
    \/ filepath \in NamedEntryPoints
    \/ d[filepath].readable /\ d[filepath].guard

\* Variant of Confidence: the file name is looked at before the path.
Confidence_NameFirst(filepath) ==
    LET filename == Lower(Basename(filepath))
    IN IF ContainsAny(filename, <<"deprecated", "legacy", "old">>) THEN 95
       ELSE IF Contains(Lower(filepath), "script") THEN 60
       ELSE IF ContainsAny(filename, <<"util", "helper">>) THEN 70
       ELSE 90

\* Confidence in hundredths.
Confidence(filepath) ==
    LET filename == Lower(Basename(filepath))
    IN IF Contains(Lower(filepath), "script") THEN 60
       ELSE IF ContainsAny(filename, <<"deprecated", "legacy", "old">>) THEN 95
       ELSE IF ContainsAny(filename, <<"util", "helper">>) THEN 70
       ELSE 90

\* Confidence of every file of the projects, evaluated once.
Confidences == [f \in Range(ProjectFiles) |-> Confidence(f)]

\* if len(info["imported_by"]) == 0: ... if is_entry_point(filepath): continue
IsOrphan(m, d) == Len(m.imported_by) = 0 /\ ~is_entry_point(m.file, d)

OrphanRecord(m) ==
    [file |-> m.file, module |-> m.name, confidence |-> Confidences[m.file]]

\* sorted(orphans, key=confidence, reverse=True)
find_orphans(mods, d) ==
    Only({Values(SortByKey(<<>>, [k \in 1..Len(hits) |->
                                     <<Confidences[hits[k].file], OrphanRecord(hits[k])>>], 1)) :
             hits \in {SelectSeq(mods, LAMBDA m : IsOrphan(m, d))}})

(***************************************************************************)
(* analyze_imports as a state machine: the graph is built, then the three  *)
(* analyses run on it in the order of the code.  It is called with the     *)
(* root package given (here none); the alias statistics are not modelled.  *)
(***************************************************************************)
InitAnalysis ==
    /\ files \in ProjectLists
    /\ root_package = ""
    /\ disk \in ProjectDisks(files)
    /\ modules = <<>>
    /\ internal_edges = <<>>
    /\ external_deps = {}
    /\ circular = <<>>
    /\ pc = "idle"
    /\ fi = 1
    /\ mi = 1
    /\ all_distances = <<>>
    /\ distances = <<>>
    /\ layers = <<>>
    /\ orphans = <<>>
    /\ apc = "graph"
    /\ PriorityIdle
    /\ DetectIdle

\* graph = build_import_graph(files, root_dir, root_package)
BuildGraph ==
    /\ apc = "graph"
    /\ \E g \in {build_import_graph(files, root_package, disk)} :
          /\ modules' = g.modules
          /\ internal_edges' = g.internal_edges
          /\ external_deps' = g.external_deps
          /\ circular' \in ListOfSet(FindCircular(g.internal_edges))
    /\ apc' = "distances"
    /\ UNCHANGED <<files, root_package, disk, pc, fi, mi>>
    /\ UNCHANGED <<all_distances, distances, layers, orphans>>
    /\ UNCHANGED priority_vars
    /\ UNCHANGED detect_vars

\* distances = calculate_dependency_distance(graph)
MeasureDistances ==
    /\ apc = "distances"
    /\ \E r \in calculate_dependency_distance(modules) :
          /\ all_distances' = r[1]
          /\ distances' = r[2]
    /\ apc' = "layers"
    /\ UNCHANGED <<layers, orphans>>
    /\ UNCHANGED graph_vars
    /\ UNCHANGED priority_vars
    /\ UNCHANGED detect_vars

\* layers = identify_layers(graph)
IdentifyLayers ==
    /\ apc = "layers"
    /\ layers' = identify_layers(modules)
    /\ apc' = "orphans"
    /\ UNCHANGED <<all_distances, distances, orphans>>
    /\ UNCHANGED graph_vars
    /\ UNCHANGED priority_vars
    /\ UNCHANGED detect_vars

\* orphans = find_orphans(graph)
FindOrphans ==
    /\ apc = "orphans"
    /\ orphans' = find_orphans(modules, disk)
    /\ apc' = "done"
    /\ UNCHANGED <<all_distances, distances, layers>>
    /\ UNCHANGED graph_vars
    /\ UNCHANGED priority_vars
    /\ UNCHANGED detect_vars

NextAnalysis == BuildGraph \/ MeasureDistances \/ IdentifyLayers \/ FindOrphans

SpecAnalysis == InitAnalysis /\ [][NextAnalysis]_vars

(***************************************************************************)
(* Properties of the analyses.                                             *)
(***************************************************************************)
\* identify_layers has returned.
LayersIdentified == apc \in {"orphans", "done"}

\* The places where a name stands in the layer lists.
PlacesOf(name) ==
    {<<layer, k>> \in LayerNames \X (1..Len(modules)) :
        k <= Len(layers[layer]) /\ layers[layer][k] = name}

\* C11: identify_layers partitions the registry: every module id stands at
\* exactly one place of the four layer lists (foundation, core,
\* orchestration, leaf), and every name in a layer list is a registry key.
C11_LayersPartitionRegistry ==
    LayersIdentified =>
        /\ DOMAIN layers = LayerNames
        /\ \A i \in 1..Len(modules) : Cardinality(PlacesOf(modules[i].name)) = 1
        /\ \A layer \in LayerNames :
              /\ Len(layers[layer]) <= Len(modules)
              /\ \A k \in 1..Len(layers[layer]) : HasKey(modules, layers[layer][k])

\* A registry of four modules spread over all four layers, one of them
\* carrying both an orchestration and a foundation keyword.
C11_FourLayersFilled ==
    /\ LayersIdentified
    /\ Len(modules) = 4
    /\ \A layer \in LayerNames : Len(layers[layer]) = 1
    /\ HasKey(modules, "pkg.utils_manager")

\* The ids of the projects whose lower-cased name holds an orchestration
\* keyword, and those that hold a foundation keyword.
OrchestrationNamed ==
    {"pkg.OrderManager", "pkg.utils_manager"}

FoundationNamed ==
    {"pkg.utils_manager", "pkg.base", "pkg.old_helper"}

InLayer(name, layer) == \E k \in 1..Len(layers[layer]) : layers[layer][k] = name

\* C12: keyword precedence.  A module whose name, case ignored, holds an
\* orchestration keyword is in the orchestration layer whatever its numbers
\* of imports and importers are, even when the name holds a foundation
\* keyword too; a module whose name holds only a foundation keyword is in
\* the foundation layer whatever its numbers are.
C12_KeywordPrecedence ==
    LayersIdentified =>
        \A i \in 1..Len(modules) :
            LET name == modules[i].name
            IN /\ name \in OrchestrationNamed => InLayer(name, "orchestration")
               /\ name \in FoundationNamed \ OrchestrationNamed =>
                     InLayer(name, "foundation")

\* "OrderManager" imports nothing and has three importers (ratio 3), and is
\* in the orchestration layer.
C12_ImportedManagerSeen ==
    /\ LayersIdentified
    /\ HasKey(modules, "pkg.OrderManager")
    /\ Len(Get(modules, "pkg.OrderManager").imports) = 0
    /\ Len(Get(modules, "pkg.OrderManager").imported_by) = 3
    /\ InLayer("pkg.OrderManager", "orchestration")

\* find_orphans has returned.
OrphansFound == apc = "done"

Listed(name) == \E k \in 1..Len(orphans) : orphans[k].module = name

\* The files of the projects named after an entry-point convention: a name
\* of the entry-point set, test_*.py or *_test.py.
ConventionalFiles == {"/r/main.py", "/r/test_engine.py", "/r/pkg/engine_test.py"}

\* The run-as-program guard can be read in the file.
GuardRead(f) == disk[f].readable /\ disk[f].guard

\* C16: find_orphans lists a module if and only if nothing imports it and
\* its file is not recognized as an entry point (by its name or by the guard
\* read in it); so main.py, test_*.py and *_test.py files are never listed,
\* and neither is a module that something imports.
C16_OrphanIffUnimportedNonEntry ==
    OrphansFound =>
        /\ \A i \in 1..Len(modules) :
              Listed(modules[i].name) <=>
                  /\ Len(modules[i].imported_by) = 0
                  /\ ~is_entry_point(modules[i].file, disk)
        /\ \A i \in 1..Len(modules) :
              /\ modules[i].file \in ConventionalFiles => ~Listed(modules[i].name)
              /\ GuardRead(modules[i].file) => ~Listed(modules[i].name)
              /\ Len(modules[i].imported_by) > 0 => ~Listed(modules[i].name)
        /\ \A k \in 1..Len(orphans) :
              /\ HasKey(modules, orphans[k].module)
              /\ Get(modules, orphans[k].module).file = orphans[k].file

\* main.py and a test file that nothing imports stand next to a listed
\* orphan and to an imported module that is no entry point.
C16_UnimportedMainSeen ==
    /\ OrphansFound
    /\ HasKey(modules, "main") /\ Len(Get(modules, "main").imported_by) = 0
    /\ HasKey(modules, "test_engine")
    /\ Len(Get(modules, "test_engine").imported_by) = 0
    /\ HasKey(modules, "pkg.engine")
    /\ Len(Get(modules, "pkg.engine").imported_by) > 0
    /\ Len(orphans) = 1
    /\ ~Listed("main") /\ ~Listed("test_engine") /\ ~Listed("pkg.engine")

\* The package-index file of the projects.
PackageIndex == "/r/pkg/__init__.py"

\* C17: entry-point recognition covers the package-index file: a package
\* index (__init__.py) that nothing imports and that holds no
\* run-as-program guard is recognized as an entry point, and is never listed
\* as an orphan.
C17_PackageIndexNeverOrphan ==
    OrphansFound =>
        \A i \in 1..Len(modules) :
            (/\ modules[i].file = PackageIndex
             /\ Len(modules[i].imported_by) = 0
             /\ ~GuardRead(modules[i].file))
            => /\ is_entry_point(modules[i].file, disk)
               /\ ~Listed(modules[i].name)

\* calculate_dependency_distance has returned.
DistancesMeasured == apc \in {"layers", "orphans", "done"}

Imports(a) == Range(Get(modules, a).imports)

\* A forward path of at most two hops leads from a to b.
WithinTwoHops(a, b) ==
    \/ b \in Imports(a)
    \/ \E c \in Imports(a) : b \in Imports(c)

\* The unordered pairs of modules with a short path in both directions.
ShortBothWays ==
    {pair \in SUBSET Range(Keys(modules)) :
        /\ Cardinality(pair) = 2
        /\ \A a, b \in pair : a # b => WithinTwoHops(a, b)}

\* The places of the tightly_coupled list that report the pair {a, b}.
ReportsOf(pair) ==
    {k \in 1..Len(distances.tightly_coupled) :
        {distances.tightly_coupled[k].file_a, distances.tightly_coupled[k].file_b} = pair}

\* C20: when at most ten pairs qualify, calculate_dependency_distance
\* reports an unordered pair {a, b} if and only if the shortest forward path
\* from a to b and the shortest forward path from b to a both have at most
\* two hops, and it reports each such pair exactly once.
C20_TightIffShortBothWays ==
    (DistancesMeasured /\ Cardinality(ShortBothWays) <= TightLimit) =>
        \A pair \in SUBSET Range(Keys(modules)) :
            Cardinality(pair) = 2 =>
                /\ pair \in ShortBothWays => Cardinality(ReportsOf(pair)) = 1
                /\ pair \notin ShortBothWays => ReportsOf(pair) = {}

\* The modules a forward path of at most k hops leads to from s.
RECURSIVE WithinHops(_, _)
WithinHops(s, k) ==
    IF k = 0 THEN {s}
    ELSE UNION {{c} \cup Imports(c) : c \in WithinHops(s, k - 1)}

Reachable(s, t) == t \in WithinHops(s, Len(modules))

\* The length of a shortest forward path from s to t, for t reachable from s.
ShortestHops(s, t) == SetMin({k \in 1..Len(modules) : t \in WithinHops(s, k)})

\* p is a forward path from s to t.
IsForwardPath(p, s, t) ==
    /\ Len(p) >= 1
    /\ p[1] = s
    /\ p[Len(p)] = t
    /\ \A k \in 1..(Len(p) - 1) : p[k + 1] \in Imports(p[k])

\* C21: for every ordered pair (s, t) of distinct modules a distance entry
\* is recorded if and only if t is reachable from s along forward edges; its
\* hops is the length of a shortest forward path, its path is a forward path
\* from s to t of hops + 1 nodes, and max_depth is the largest recorded hops
\* (0 when nothing is recorded).  The traversal ends on every graph, cyclic
\* ones included: where the analysis waits for it, it can return.
C21_DistancesAreShortestPaths ==
    /\ apc = "distances" => ENABLED MeasureDistances
    /\ DistancesMeasured =>
          /\ \A s, t \in Range(Keys(modules)) :
                s # t =>
                   /\ <<s, t>> \in DOMAIN all_distances <=> Reachable(s, t)
                   /\ <<s, t>> \in DOMAIN all_distances =>
                         /\ all_distances[<<s, t>>].hops = ShortestHops(s, t)
                         /\ Len(all_distances[<<s, t>>].path)
                               = all_distances[<<s, t>>].hops + 1
                         /\ IsForwardPath(all_distances[<<s, t>>].path, s, t)
          /\ \A pair \in DOMAIN all_distances :
                /\ pair[1] # pair[2]
                /\ all_distances[pair].hops <= distances.max_depth
          /\ \/ DOMAIN all_distances = {} /\ distances.max_depth = 0
             \/ \E pair \in DOMAIN all_distances :
                   all_distances[pair].hops = distances.max_depth

\* A cyclic graph measured: two modules reach each other, one pair is three
\* hops apart, and one module does not reach another.
C21_CyclicGraphMeasured ==
    /\ DistancesMeasured
    /\ \E s, t \in Range(Keys(modules)) :
          /\ <<s, t>> \in DOMAIN all_distances
          /\ <<t, s>> \in DOMAIN all_distances
    /\ \E pair \in DOMAIN all_distances : all_distances[pair].hops = 3
    /\ \E s, t \in Range(Keys(modules)) :
          s # t /\ <<s, t>> \notin DOMAIN all_distances
    /\ distances.max_depth = 3

\* The ids of the projects whose name holds no layer keyword.
PlainNamed ==
    {"main", "pkg", "pkg.engine", "pkg.store", "pkg.tool", "test_engine",
     "pkg.engine_test", "pkg.holder", "scripts.old_job"}

\* The layer the shape of the graph gives a module of i imports and b
\* importers, with ratio = b / (i + 1).
ShapeLayer(i, b) ==
    IF i = 0 /\ b = 0 THEN "leaf"
    ELSE IF b > 2 * (i + 1) THEN "foundation"
    ELSE IF 2 * b < i + 1 /\ i > 2 THEN "orchestration"
    ELSE "core"

\* C25: a module whose name holds no orchestration or foundation keyword is
\* leaf iff it has no imports and no importers; otherwise foundation iff
\* ratio > 2; otherwise orchestration iff ratio < 0.5 and it has more than
\* two imports; otherwise core.  Two modules that only import each other
\* are both core.
C25_ShapeRules ==
    LayersIdentified =>
        /\ \A k \in 1..Len(modules) :
            modules[k].name \in PlainNamed =>
                \A layer \in LayerNames :
                    InLayer(modules[k].name, layer) <=>
                        layer = ShapeLayer(Len(modules[k].imports),
                                           Len(modules[k].imported_by))
        /\ \A a, b \in PlainNamed \cap Range(Keys(modules)) :
              (/\ a # b
               /\ Get(modules, a).imports = <<b>> /\ Get(modules, a).imported_by = <<b>>
               /\ Get(modules, b).imports = <<a>> /\ Get(modules, b).imported_by = <<a>>)
              => InLayer(a, "core") /\ InLayer(b, "core")

\* Plain-named modules in one registry: a foundation by ratio (no imports,
\* three importers) next to an orchestration by ratio (three imports, no
\* importer).
C25_RatioLayersSeen ==
    /\ LayersIdentified
    /\ HasKey(modules, "main") /\ HasKey(modules, "pkg.engine")
    /\ Len(Get(modules, "main").imports) = 3
    /\ Len(Get(modules, "main").imported_by) = 0
    /\ InLayer("main", "orchestration")
    /\ Len(Get(modules, "pkg.engine").imports) = 0
    /\ Len(Get(modules, "pkg.engine").imported_by) = 3
    /\ InLayer("pkg.engine", "foundation")

\* Two plain-named modules that only import each other, both core.
C25_MutualPairSeen ==
    /\ LayersIdentified
    /\ HasKey(modules, "pkg.engine") /\ HasKey(modules, "pkg.store")
    /\ Get(modules, "pkg.engine").imports = <<"pkg.store">>
    /\ Get(modules, "pkg.engine").imported_by = <<"pkg.store">>
    /\ Get(modules, "pkg.store").imports = <<"pkg.engine">>
    /\ InLayer("pkg.engine", "core") /\ InLayer("pkg.store", "core")

\* The files of the projects whose path suggests a script, whose name holds
\* deprecated, legacy or old, and whose name holds util or helper.
ScriptPaths == {"/r/scripts/old_job.py"}

OldNames == {"/r/scripts/old_job.py", "/r/pkg/holder.py", "/r/pkg/old_helper.py"}

UtilNames == {"/r/pkg/utils_manager.py", "/r/pkg/old_helper.py"}

\* The list is in non-increasing order of confidence.
OrphansSorted ==
    \A j, k \in 1..Len(orphans) : j < k => orphans[j].confidence >= orphans[k].confidence

\* C26 as stated: every listed orphan has confidence 0.95 when its file name
\* holds deprecated, legacy or old, 0.6 when its path suggests a script, 0.7
\* when its file name holds util or helper, and 0.9 otherwise; the list is
\* in non-increasing order of confidence.
C26_ConfidenceByAnyRule ==
    OrphansFound =>
        /\ \A k \in 1..Len(orphans) :
              LET f == orphans[k].file
                  c == orphans[k].confidence
              IN /\ f \in OldNames => c = 95
                 /\ f \in ScriptPaths => c = 60
                 /\ f \in UtilNames => c = 70
                 /\ f \notin OldNames \cup ScriptPaths \cup UtilNames => c = 90
        /\ OrphansSorted

\* C26, amended: the rules are tried in a fixed order and the first that
\* applies decides: 0.6 when the path suggests a script, else 0.95 when the
\* file name holds deprecated, legacy or old, else 0.7 when it holds util or
\* helper, else 0.9; the list is in non-increasing order of confidence.
C26_ConfidenceByFirstRule ==
    OrphansFound =>
        /\ \A k \in 1..Len(orphans) :
              LET f == orphans[k].file
              IN orphans[k].confidence =
                    IF f \in ScriptPaths THEN 60
                    ELSE IF f \in OldNames THEN 95
                    ELSE IF f \in UtilNames THEN 70
                    ELSE 90
        /\ OrphansSorted

\* Four orphans, one of each confidence, two of them under more than one
\* rule, listed from 0.95 down to 0.6.
C26_AllConfidencesSeen ==
    /\ OrphansFound
    /\ Len(orphans) = 4
    /\ orphans[1].file = "/r/pkg/old_helper.py" /\ orphans[1].confidence = 95
    /\ orphans[2].confidence = 90
    /\ orphans[3].file = "/r/pkg/utils_manager.py" /\ orphans[3].confidence = 70
    /\ orphans[4].file = "/r/scripts/old_job.py" /\ orphans[4].confidence = 60

\* The records of the tightly_coupled list.
TightRecords == Range(distances.tightly_coupled)

\* C30: when at most ten pairs qualify as tightly coupled, every pair (a, b)
\* of the circular list of build_import_graph is in the tightly_coupled list
\* of calculate_dependency_distance, as file_a = a, file_b = b, distance 1.
C30_CircularPairsAreTight ==
    (DistancesMeasured /\ Cardinality(ShortBothWays) <= TightLimit) =>
        \A k \in 1..Len(circular) :
            \E t \in TightRecords :
                /\ t.file_a = circular[k][1]
                /\ t.file_b = circular[k][2]
                /\ t.distance = 1

\* Two circular pairs, and a third tightly coupled pair that is not circular.
C30_TwoCircularPairsSeen ==
    /\ DistancesMeasured
    /\ Len(circular) = 2
    /\ Len(distances.tightly_coupled) = 3
    /\ \E t \in TightRecords : t.distance = 2

\* The registered ids whose last segment is the reference's last segment.
LastSegmentCandidates(imp) == {id \in Ids : LastSegment(id) = LastSegment(imp)}

\* C24: leaf-name matching compares the last segment of the reference with
\* the last segment of every registered id: for a reference, dotted ones
\* included, that no earlier strategy resolves, the candidates are the
\* registered ids with that last segment; with no candidate nothing is
\* resolved, and with exactly one the reference resolves to it.
C24_LeafOnLastSegment ==
    pc = "done" =>
        \A i \in DOMAIN modules : \A k \in DOMAIN ImportData(i).imports :
            LET imp == ImportData(i).imports[k]
                t == ResolveAbsolute(modules, modules[i].name, imp)
                cands == LastSegmentCandidates(imp)
                earlier == imp \in Ids
                           \/ \E id \in Ids : IsChildOf(id, imp) \/ IsParentOf(id, imp)
            IN ~earlier =>
                  /\ cands = {} => t = ""
                  /\ Cardinality(cands) = 1 => t \in cands
                  /\ t # "" => t \in cands

\* The importer's id without its last `level` segments, then the name.
RelativeCandidate(m, level, name) ==
    LET parts == Split(m, ".")
        kept == IF level >= Len(parts) THEN <<>>
                ELSE SubSeq(parts, 1, Len(parts) - level)
    IN Join(kept \o (IF name = "" THEN <<>> ELSE <<name>>), ".")

\* The prefixes of a dotted name, by whole segments.
SegmentPrefixes(name) ==
    IF name = "" THEN {}
    ELSE LET parts == Split(name, ".")
         IN {Join(SubSeq(parts, 1, n), ".") : n \in 1..Len(parts)}

\* ".".join(target.split(".")[:-1])
WithoutLastSegment(name) ==
    LET parts == Split(name, ".") IN Join(SubSeq(parts, 1, Len(parts) - 1), ".")

\* The longest registered prefix of a dotted name ("" when there is none).
LongestRegisteredPrefix(name) ==
    LET hits == SegmentPrefixes(name) \cap Ids
    IN IF hits = {} THEN ""
       ELSE CHOOSE h \in hits : \A other \in hits : Len(other) <= Len(h)

\* The graph under construction, as the second pass holds it.
GraphNow ==
    [modules |-> modules, internal_edges |-> internal_edges,
     external_deps |-> external_deps]

\* C29: for a relative reference the resolver drops `level` trailing
\* segments from the importer's id and appends the name, then strips
\* trailing segments one at a time.  The loop ends for every reference:
\* each strip makes the name shorter, down to the empty name, so the
\* resolver has a result.  The edge target is the longest registered prefix
\* of the candidate; no edge is added when no prefix is registered or when
\* that prefix is the importer itself.
C29_RelativeResolution ==
    /\ pc = "analyze" =>
          \A n \in DOMAIN Menu(modules[mi].file) :
              \A k \in DOMAIN Menu(modules[mi].file)[n].relative_imports :
                  LET m == modules[mi].name
                      rel == Menu(modules[mi].file)[n].relative_imports[k]
                      cand == RelativeCandidate(m, CountLeadingDots(rel),
                                                StripLeadingDots(rel))
                      t == LongestRegisteredPrefix(cand)
                      after == ProcessRelativeImport(GraphNow, m, rel)
                  IN /\ resolve_relative_import(m, rel) = cand
                     /\ \A p \in SegmentPrefixes(cand) : Len(WithoutLastSegment(p)) < Len(p)
                     /\ ResolveRelative(modules, m, rel) = t
                     /\ t \in {"", m} => after = GraphNow
                     /\ t \notin {"", m} =>
                           /\ t \in Range(Get(after.modules, m).imports)
                           /\ m \in Range(Get(after.modules, t).imported_by)
                           /\ <<m, t>> \in Range(after.internal_edges)
    /\ pc = "done" =>
          \A i \in DOMAIN modules : \A k \in DOMAIN ImportData(i).relative_imports :
              LET m == modules[i].name
                  rel == ImportData(i).relative_imports[k]
                  t == LongestRegisteredPrefix(
                           RelativeCandidate(m, CountLeadingDots(rel),
                                             StripLeadingDots(rel)))
              IN t \notin {"", m} => <<m, t>> \in Edges

\* A finished run with a relative reference whose candidate lost two
\* segments before a registered id was found, and the edge to that id.
C29_TwoSegmentsStripped ==
    /\ pc = "done"
    /\ \E i \in DOMAIN modules : \E k \in DOMAIN ImportData(i).relative_imports :
          LET m == modules[i].name
              rel == ImportData(i).relative_imports[k]
              cand == resolve_relative_import(m, rel)
              parts == Split(cand, ".")
          IN /\ Len(parts) >= 3
             /\ cand \notin Ids
             /\ Join(SubSeq(parts, 1, Len(parts) - 1), ".") \notin Ids
             /\ Join(SubSeq(parts, 1, Len(parts) - 2), ".") \in Ids \ {m}
             /\ <<m, Join(SubSeq(parts, 1, Len(parts) - 2), ".")>> \in Edges

\* ---------------------------------------------------------------------
\* Absent signal sources.

\* The signal sources missing from the results dict: a top-level key, or a
\* key of the git dict.
AbsentSources ==
    {s \in Sources :
        CASE s = "hotspots" -> "hotspots" \notin DOMAIN results
          [] s = "risk" -> "risk" \notin DOMAIN GetOr(results, "git", <<>>)
          [] s = "freshness" ->
                 "freshness" \notin DOMAIN GetOr(results, "git", <<>>)
          [] s = "calls" -> "calls" \notin DOMAIN results
          [] s = "tests" -> "tests" \notin DOMAIN results}

IsRecordList(xs) ==
    /\ DOMAIN xs = 1..Len(xs)
    /\ \A i \in DOMAIN xs :
           {"file", "score", "reasons"} \subseteq DOMAIN xs[i]

\* C22: calculate_priority_scores reads every signal source with a default,
\* so for every subset of absent sources it returns a list of at most 20
\* records.  Only hotspots and git risk create entries: with both of them
\* absent, and so with every source absent, the list is empty.
C22_RunsWithAbsentSources ==
    /\ spc = "hotspots" =>
          \E out \in {calculate_priority_scores(results)} :
              /\ IsRecordList(out)
              /\ Len(out) <= TopN
              /\ {"hotspots", "risk"} \subseteq AbsentSources => out = <<>>
    /\ Returned =>
          /\ IsRecordList(top_20)
          /\ Len(top_20) <= TopN
          /\ {"hotspots", "risk"} \subseteq AbsentSources => top_20 = <<>>
          /\ AbsentSources = Sources => top_20 = <<>>

\* A run that returned with every source absent.
C22_NothingSuppliedSeen ==
    /\ Returned
    /\ DOMAIN results = {}
    /\ top_20 = <<>>

\* A run that returned a non-empty list with only git risk supplied.
C22_OnlyRiskSuppliedSeen ==
    /\ Returned
    /\ AbsentSources = Sources \ {"risk"}
    /\ Len(top_20) > 0

\* A run that returned the empty list although freshness, calls and tests
\* were supplied.
C22_NoEntrySourceSeen ==
    /\ Returned
    /\ AbsentSources = {"hotspots", "risk"}
    /\ \E i \in DOMAIN results.git.freshness :
           Len(results.git.freshness[i].files) > 0
    /\ top_20 = <<>>

\* ---------------------------------------------------------------------
\* The import-weight signal.

ImportAnalysisSupplied == "imports" \in DOMAIN results

\* The number of importers, in the dependency graph of the results, of the
\* module a scored file holds.
ImporterCount(f) ==
    LET graph == results.imports.graph
        at == {i \in DOMAIN graph : LastSegment(graph[i].name) = Stem(f)}
    IN IF at = {} THEN 0
       ELSE Len(graph[CHOOSE i \in at : TRUE].imported_by)

\* C23 as stated: the import-weight signal of every scored file is its
\* imported_by count in the dependency graph.
C23_ImportWeightIsImporterCount ==
    (SignalsCollected /\ ImportAnalysisSupplied) =>
        \A f \in DOMAIN SignalDicts[2] :
            SignalDicts[2][f] = ImporterCount(f)

\* What the code computes: the import weight of a file is the largest
\* call_sites of the most_called functions matched to it, whatever the
\* dependency graph says.
ImportWeightIsCallSites ==
    (SignalsCollected /\ ImportAnalysisSupplied) =>
        \A f \in DOMAIN SignalDicts[2] :
            SignalDicts[2][f] =
                IF Stem(f) = "b01" THEN 12
                ELSE IF Stem(f) = "r01" THEN 3
                ELSE 0

\* ---------------------------------------------------------------------
\* The freshness and test-coverage signals.

FreshnessBuckets == {"active", "aging", "stale", "dormant"}

\* The categories of the freshness data that list a scored file, under the
\* path matching of the freshness loop.
BucketsOf(f) ==
    LET freshness == GetOr(GetOr(results, "git", <<>>), "freshness", <<>>)
    IN {freshness[i].category : i \in
          {i \in DOMAIN freshness :
              \E j \in DOMAIN freshness[i].files :
                  GetOr(path_map, normalize_path(freshness[i].files[j]),
                        freshness[i].files[j]) = f}}

\* The freshness signal the table of the statement gives, in tenths.
TableFreshness(f) ==
    IF BucketsOf(f) = {} THEN 5
    ELSE CASE BucketsOf(f) = {"active"} -> 10
           [] BucketsOf(f) = {"aging"} -> 7
           [] BucketsOf(f) = {"stale"} -> 4
           [] BucketsOf(f) = {"dormant"} -> 1

\* The test-coverage-absence signal the statement gives, in halves.
TableUntested(f) ==
    IF ~CoverageSupplied THEN 1
    ELSE IF Stem(f) \in TestedModules THEN 0 ELSE 2

\* C28 as stated: the freshness signal entering the composite score is 1.0
\* for an active file, 0.7 for aging, 0.4 for stale, 0.1 for dormant and 0.5
\* for a file in no bucket; the test-coverage-absence signal is 1.0 for an
\* untested file, 0.0 for a tested one and 0.5 when coverage is unknown.
C28_FreshnessAndUntestedTable ==
    SignalsCollected =>
        \A f \in DOMAIN SignalDicts[4] :
            BucketsOf(f) \subseteq FreshnessBuckets =>
                /\ FractionIs(Normalized(4, f), TableFreshness(f), 10)
                /\ FractionIs(Untested(f), TableUntested(f), 2)

\* What the code computes: the raw freshness is 0.0 for active, 0.3 for
\* aging, 0.6 for stale, 1.0 for dormant and 0.5 for a file in no bucket
\* (normalize_values is applied to it before it enters the score), and the
\* test-coverage-absence signal is 0.0 or 1.0, never 0.5.
FreshnessIsStalenessNormalized ==
    SignalsCollected =>
        \A f \in DOMAIN SignalDicts[4] :
            /\ BucketsOf(f) \subseteq FreshnessBuckets =>
                   SignalDicts[4][f] =
                       IF BucketsOf(f) = {} THEN FreshnessDefault
                       ELSE FreshnessWeights[CHOOSE c \in BucketsOf(f) : TRUE]
            /\ Untested(f) \in {<<0, 1>>, <<1, 1>>}

(***************************************************************************)
(* auto_detect_root_package.  A path is the sequence of its segments below *)
(* the directory; a directory is what os.listdir can do with it and the    *)
(* absolute imports parse_imports finds in each of its files.              *)
(***************************************************************************)
DirectoryFiles ==
    { <<"main.py">>,
      <<"a", "__init__.py">>, <<"a", "x.py">>,
      <<"b", "__init__.py">>, <<"b", "y.py">>, <<"b", "z.py">>,
      <<"b", "notes.txt">>,
      <<"tests", "__init__.py">>, <<"tests", "t.py">>,
      <<"c", "w.py">> }

\* The absolute imports a file of the universe may hold, in source order.
ImportChoices(path) ==
    CASE path = <<"main.py">> ->
             {<<"a", "b.y">>, <<"b", "a.x">>, <<"os", "c.w">>}
      [] path = <<"a", "x.py">> -> {<<>>, <<"b.y">>}
      [] path = <<"b", "y.py">> -> {<<"a">>, <<"b.z", "a.x", "b">>}
      [] path = <<"b", "notes.txt">> -> {<<"b">>}
      [] path = <<"tests", "t.py">> -> {<<"b", "b.y">>}
      [] path = <<"c", "w.py">> -> {<<"c", "a">>}
      [] OTHER -> {<<>>}

MaxDirFiles == 4

Directories ==
    {[listable |-> l, files |-> fs] :
        l \in BOOLEAN,
        fs \in UNION {{f \in [ps -> UNION {ImportChoices(p) : p \in ps}] :
                          \A p \in ps : f[p] \in ImportChoices(p)} :
                      ps \in {ps \in SUBSET DirectoryFiles :
                                 Cardinality(ps) <= MaxDirFiles}}}

ignore_dirs == {"__pycache__", ".git", "tests", "venv", ".venv"}

\* The items of the directory that are directories, not hidden, and hold
\* an __init__.py.
PotentialPackages(d) ==
    {p[1] : p \in {p \in DOMAIN d.files :
                      /\ Len(p) > 1
                      /\ CharAt(p[1], 1) # "."
                      /\ <<p[1], "__init__.py">> \in DOMAIN d.files}}

Perms(S) ==
    {f \in [1..Cardinality(S) -> S] : \A i, j \in DOMAIN f : i # j => f[i] # f[j]}

\* The orders in which os.walk may yield the files: those of the directory
\* itself first, then those of each sub-directory outside ignore_dirs; the
\* order within a listing is the file system's.
WalkOrders(d) ==
    LET root == {p \in DOMAIN d.files : Len(p) = 1}
        dirs == {p[1] : p \in {p \in DOMAIN d.files : Len(p) > 1}} \ ignore_dirs
        In(dir) == {p \in DOMAIN d.files : Len(p) > 1 /\ p[1] = dir}
        listings == {ch \in [dirs -> UNION {Perms(In(dir)) : dir \in dirs}] :
                        \A dir \in dirs : ch[dir] \in Perms(In(dir))}
    IN {r \o Concat([i \in DOMAIN o |-> ch[o[i]]]) :
           r \in Perms(root), o \in Perms(dirs), ch \in listings}

\* import_counts[first] += 1
CountOne(counts, first) ==
    IF \E i \in DOMAIN counts : counts[i].name = first
    THEN [i \in DOMAIN counts |->
             IF counts[i].name = first
             THEN [counts[i] EXCEPT !.count = @ + 1]
             ELSE counts[i]]
    ELSE Append(counts, [name |-> first, count |-> 1])

\* The loop over the absolute imports of one file.
RECURSIVE CountImports(_, _, _)
CountImports(counts, potential, imps) ==
    IF Len(imps) = 0 THEN counts
    ELSE LET first == FirstSegment(imps[1])
             next == IF first \in potential THEN CountOne(counts, first)
                     ELSE counts
         IN CountImports(next, potential, Tail(imps))

\* import_counts.most_common(1)[0][0]: the first, in insertion order, of
\* the entries with the largest count.
MostCommon(counts) ==
    LET top == SetMax({counts[i].count : i \in DOMAIN counts})
    IN counts[SetMin({i \in DOMAIN counts : counts[i].count = top})].name

\* sum(1 for _ in pkg_path.rglob("*.py"))
PackageSize(d, pkg) ==
    Cardinality({p \in DOMAIN d.files :
                    Len(p) > 1 /\ p[1] = pkg /\ EndsWith(p[Len(p)], ".py")})

\* max(pkg_sizes, key=pkg_sizes.get): a largest package; among equals the
\* first in the iteration order of a set of strings, which is any of them.
LargestPackages(d, potential) ==
    {p \in potential :
        \A q \in potential : PackageSize(d, q) <= PackageSize(d, p)}

InitDetect ==
    /\ directory \in Directories
    /\ potential_packages = {}
    /\ walk = <<>>
    /\ import_counts = <<>>
    /\ detected = ""
    /\ dpc = "list"
    /\ GraphIdle
    /\ PriorityIdle
    /\ AnalysisIdle

\* The listing of the directory: None when it cannot be listed or holds no
\* package.
ListPackages ==
    /\ dpc = "list"
    /\ IF ~directory.listable \/ PotentialPackages(directory) = {}
       THEN /\ dpc' = "returned"
            /\ UNCHANGED <<potential_packages, walk>>
       ELSE /\ potential_packages' = PotentialPackages(directory)
            /\ walk' \in WalkOrders(directory)
            /\ dpc' = "walk"
    /\ UNCHANGED <<directory, import_counts, detected>>
    /\ UNCHANGED graph_vars
    /\ UNCHANGED priority_vars
    /\ UNCHANGED analysis_vars

\* One file of the walk.
ScanFile ==
    /\ dpc = "walk"
    /\ walk # <<>>
    /\ LET path == Head(walk)
       IN import_counts' =
              IF EndsWith(path[Len(path)], ".py")
              THEN CountImports(import_counts, potential_packages,
                                directory.files[path])
              ELSE import_counts
    /\ walk' = Tail(walk)
    /\ UNCHANGED <<directory, potential_packages, detected, dpc>>
    /\ UNCHANGED graph_vars
    /\ UNCHANGED priority_vars
    /\ UNCHANGED analysis_vars

\* The choice after the walk: the most counted package, or with no count
\* at all the largest one.
PickPackage ==
    /\ dpc = "walk"
    /\ walk = <<>>
    /\ IF import_counts # <<>>
       THEN detected' = MostCommon(import_counts)
       ELSE detected' \in LargestPackages(directory, potential_packages)
    /\ dpc' = "returned"
    /\ UNCHANGED <<directory, potential_packages, walk, import_counts>>
    /\ UNCHANGED graph_vars
    /\ UNCHANGED priority_vars
    /\ UNCHANGED analysis_vars

NextDetect == ListPackages \/ ScanFile \/ PickPackage

SpecDetect == InitDetect /\ [][NextDetect]_vars

\* ---------------------------------------------------------------------
\* Root-package detection.

Detected == dpc = "returned" /\ potential_packages # {}

\* The files the walk scans: the Python files outside ignore_dirs.
ScannedFiles ==
    {p \in DOMAIN directory.files :
        /\ EndsWith(p[Len(p)], ".py")
        /\ Len(p) > 1 => p[1] \notin ignore_dirs}

\* The number of absolute imports of the scanned files whose first segment
\* is the package.
References(pkg) ==
    LET Of(p) == Cardinality({i \in DOMAIN directory.files[p] :
                     FirstSegment(directory.files[p][i]) = pkg})
        RECURSIVE Sum(_)
        Sum(ps) == IF ps = {} THEN 0
                   ELSE LET p == CHOOSE p \in ps : TRUE
                        IN Of(p) + Sum(ps \ {p})
    IN Sum(ScannedFiles)

\* C27 as stated: the detected package is, among the candidates, the one
\* most often referenced as the first segment of an absolute import, and of
\* two candidates referenced equally often the one with more files under
\* its directory.
C27_MostReferencedThenLargest ==
    Detected =>
        /\ detected \in potential_packages
        /\ \A q \in potential_packages :
              \/ References(q) < References(detected)
              \/ /\ References(q) = References(detected)
                 /\ PackageSize(directory, q) <= PackageSize(directory, detected)

\* What the code computes: a most referenced candidate, whichever of them
\* the walk counted first; the file count decides only when no candidate is
\* referenced at all.  A directory that cannot be listed, or holds no
\* candidate, gives None.
MostReferencedOrLargestUnreferenced ==
    /\ Detected =>
          /\ detected \in potential_packages
          /\ \A q \in potential_packages :
                References(q) <= References(detected)
          /\ References(detected) = 0 =>
                \A q \in potential_packages :
                    PackageSize(directory, q) <= PackageSize(directory, detected)
    /\ (dpc = "returned" /\ potential_packages = {}) =>
          /\ detected = ""
          /\ ~directory.listable \/ PotentialPackages(directory) = {}

\* A detection that returned the smaller of two equally referenced
\* candidates.
SmallerOfEquallyReferencedSeen ==
    /\ Detected
    /\ \E q \in potential_packages :
          /\ References(q) = References(detected)
          /\ References(q) > 0
          /\ PackageSize(directory, q) > PackageSize(directory, detected)

====
